---- MODULE Spec2Model ----
(***************************************************************************)
(* Model of the job orchestration core of the registry manager             *)
(* (src/app/sync_jobs.py): the SyncJobManager job store, the plan builders *)
(* of the create calls, the job runner thread and the registry cleanup     *)
(* thread.                                                                 *)
(*                                                                         *)
(* Text is a sequence of atoms.  An atom is a string that the code never   *)
(* looks inside for the inputs drawn here: the separators " ", "/", ":",   *)
(* "@", "." and "-" are atoms of their own, every other atom is a run of   *)
(* characters between separators.                                          *)
(***************************************************************************)
EXTENDS Integers, Sequences, FiniteSets, TLC

\* -------------------------------------------------------------------------
\* Bounds of the model
\* -------------------------------------------------------------------------
\* number of create calls whose threads are followed step by step
MaxCalls == 1
\* number of jobs that run at the same time, where that matters
MaxJobs == 2
\* number of output lines of a command where their order matters
MaxOrdered == 2
\* number of further create_job calls whose insert is followed and whose
\* worker threads are not scheduled in the window that is modelled
MaxOther == 22
\* output lines one command can produce
MaxOutputLines == 1

\* -------------------------------------------------------------------------
\* Text helpers (Python str methods used by the code)
\* -------------------------------------------------------------------------
Max(a, b) == IF a >= b THEN a ELSE b

Min(a, b) == IF a <= b THEN a ELSE b

\* s[a..b], empty when a > b
Slice(s, a, b) == IF a > b THEN <<>> ELSE SubSeq(s, a, b)

\* str.lstrip(ch) for a single separator ch
RECURSIVE LStripChar(_, _)
LStripChar(s, ch) ==
    IF s = <<>> THEN s
    ELSE IF Head(s) = ch THEN LStripChar(Tail(s), ch) ELSE s

\* str.rstrip(ch)
RECURSIVE RStripChar(_, _)
RStripChar(s, ch) ==
    IF s = <<>> THEN s
    ELSE IF s[Len(s)] = ch THEN RStripChar(Slice(s, 1, Len(s) - 1), ch) ELSE s

\* str.strip(ch)
StripChar(s, ch) == RStripChar(LStripChar(s, ch), ch)

\* str.strip(): white space is the atom " "
Strip(s) == StripChar(s, " ")

\* str.rstrip()
RStrip(s) == RStripChar(s, " ")

\* str.lower() on one atom: the upper-case atoms of the inputs
LowerAtom(a) ==
    CASE a = "ADD" -> "add"
      [] a = "REMOVE" -> "remove"
      [] a = "NONE" -> "none"
      [] a = "AUTO" -> "auto"
      [] a = "CUSTOM" -> "custom"
      [] a = "X86" -> "x86"
      [] a = "ARM" -> "arm"
      [] OTHER -> a

\* str.lower()
Lower(s) == [i \in 1..Len(s) |-> LowerAtom(s[i])]

\* ch in s
Contains(s, ch) == \E i \in 1..Len(s) : s[i] = ch

\* str.rfind(ch): the last position of ch, 0 when absent (Python: -1); the
\* code only compares two rfind results, and the order is kept
RFind(s, ch) ==
    IF Contains(s, ch)
    THEN CHOOSE i \in 1..Len(s) : s[i] = ch /\ \A k \in (i + 1)..Len(s) : s[k] # ch
    ELSE 0

\* str.find(ch): the first position of ch, 0 when absent
Find(s, ch) ==
    IF Contains(s, ch)
    THEN CHOOSE i \in 1..Len(s) : s[i] = ch /\ \A k \in 1..(i - 1) : s[k] # ch
    ELSE 0

\* str.startswith(p)
StartsWith(s, p) == Len(p) <= Len(s) /\ Slice(s, 1, Len(p)) = p

\* str.endswith(p)
EndsWith(s, p) == Len(p) <= Len(s) /\ Slice(s, Len(s) - Len(p) + 1, Len(s)) = p

\* str.replace(a, b) for single atoms
Replace(s, a, b) == [i \in 1..Len(s) |-> IF s[i] = a THEN b ELSE s[i]]

\* sep.join(parts)
RECURSIVE Join(_, _)
Join(parts, sep) ==
    IF parts = <<>> THEN <<>>
    ELSE IF Len(parts) = 1 THEN parts[1]
    ELSE parts[1] \o sep \o Join(Tail(parts), sep)

\* [item.strip() for item in items if item and item.strip()]
RECURSIVE StripNonBlank(_)
StripNonBlank(items) ==
    IF items = <<>> THEN <<>>
    ELSE IF Strip(Head(items)) # <<>>
         THEN <<Strip(Head(items))>> \o StripNonBlank(Tail(items))
    ELSE StripNonBlank(Tail(items))

\* the keys of dict.fromkeys(items) after the items of s are added to seen
RECURSIVE DedupeInto(_, _)
DedupeInto(seen, s) ==
    IF s = <<>> THEN seen
    ELSE DedupeInto(IF Contains(seen, Head(s)) THEN seen ELSE Append(seen, Head(s)),
                    Tail(s))

\* a list that keeps its repetitions
DedupeNothing(s) == s

\* list(dict.fromkeys(items)): first occurrences, in order
Dedupe(s) == DedupeInto(<<>>, s)

\* -------------------------------------------------------------------------
\* Reference parser
\* -------------------------------------------------------------------------
\* Python's "value or default" on text
OrDefault(value, default) == IF value # <<>> THEN value ELSE default

\* _is_registry_component on the first path component
IsRegistryComponent(value) ==
    Contains(value, ".") \/ Contains(value, ":") \/ value = <<"localhost">>

\* the tests of detect_arch_label on the stripped, lowered machine name
ArchLabelOf(machine) ==
    IF machine \in {<<"x86_64">>, <<"amd64">>, <<"x64">>} THEN <<"x86">>
    ELSE IF machine \in {<<"aarch64">>, <<"arm64">>} THEN <<"arm">>
    ELSE IF StartsWith(machine, <<"arm">>) THEN <<"arm">>
    ELSE OrDefault(machine, <<"unknown">>)

\* detect_arch_label(raw)
DetectArchLabel(raw) == ArchLabelOf(Lower(Strip(raw)))

\* base_name of _split_source_image; at, slash_index and colon_index are
\* the last positions of "@", "/" and ":" in value, 0 when absent
BaseName(value, at, slash_index, colon_index) ==
    IF at > 0 THEN Slice(value, 1, at - 1)
    ELSE IF colon_index > slash_index THEN Slice(value, 1, colon_index - 1)
    ELSE value

\* a tag that is "latest" whatever the reference
DefaultTagLatest(value, at, slash_index, colon_index) == <<"latest">>

\* default_tag of _split_source_image
DefaultTag(value, at, slash_index, colon_index) ==
    IF at > 0 THEN Replace(Slice(value, at + 1, Len(value)), ":", "-")
    ELSE IF colon_index > slash_index THEN Slice(value, colon_index + 1, Len(value))
    ELSE <<"latest">>

\* target_repo of _split_source_image: base_name without a leading registry
\* component; first_slash is the first position of "/" in it, 0 when absent
TargetRepo(base_name, first_slash) ==
    IF first_slash > 0 /\ IsRegistryComponent(Slice(base_name, 1, first_slash - 1))
    THEN Slice(base_name, first_slash + 1, Len(base_name))
    ELSE base_name

\* the two raises of _split_source_image and its return value:
\* [ok, error, repo, tag]; ok = FALSE is the ValueError
SplitResult(value, target_repo, default_tag) ==
    IF value = <<>>
    THEN [ok |-> FALSE, error |-> "source_image cannot be empty.", repo |-> <<>>,
          tag |-> <<>>]
    ELSE IF target_repo = <<>>
         THEN [ok |-> FALSE, error |-> "Cannot derive target repository.",
               repo |-> <<>>, tag |-> <<>>]
    ELSE [ok |-> TRUE, error |-> "", repo |-> target_repo, tag |-> default_tag]

SplitNamed(value, base_name, default_tag) ==
    SplitResult(value, TargetRepo(base_name, Find(base_name, "/")), default_tag)

SplitAt(value, at, slash_index, colon_index) ==
    SplitNamed(value, BaseName(value, at, slash_index, colon_index),
               DefaultTag(value, at, slash_index, colon_index))

SplitStripped(value) ==
    SplitAt(value, RFind(value, "@"), RFind(value, "/"), RFind(value, ":"))

\* _split_source_image(image)
SplitSourceImage(image) == SplitStripped(Strip(image))

\* a prefix rule whose remove leaves the repository as it is
ApplyPrefixKeeping(base, prefix, prefix_mode) ==
    IF prefix = <<>> \/ prefix_mode \in {<<"none">>, <<"remove">>}
    THEN [ok |-> TRUE, repo |-> base]
    ELSE IF prefix_mode = <<"add">>
         THEN IF StartsWith(base, prefix \o <<"/">>) \/ base = prefix
              THEN [ok |-> TRUE, repo |-> base]
              ELSE [ok |-> TRUE, repo |-> prefix \o <<"/">> \o base]
    ELSE [ok |-> FALSE, repo |-> <<>>]

\* _apply_prefix on the stripped repository and prefix: [ok, repo]; ok =
\* FALSE is the ValueError
ApplyPrefixTo(base, prefix, prefix_mode) ==
    IF prefix = <<>> \/ prefix_mode = <<"none">> THEN [ok |-> TRUE, repo |-> base]
    ELSE IF prefix_mode = <<"add">>
         THEN IF StartsWith(base, prefix \o <<"/">>) \/ base = prefix
              THEN [ok |-> TRUE, repo |-> base]
              ELSE [ok |-> TRUE, repo |-> prefix \o <<"/">> \o base]
    ELSE IF prefix_mode = <<"remove">>
         THEN IF StartsWith(base, prefix \o <<"/">>)
              THEN [ok |-> TRUE, repo |-> Slice(base, Len(prefix) + 2, Len(base))]
              ELSE IF base = prefix THEN [ok |-> TRUE, repo |-> <<>>]
              ELSE [ok |-> TRUE, repo |-> base]
    ELSE [ok |-> FALSE, repo |-> <<>>]

\* _apply_prefix(repository, prefix_mode, prefix_value)
ApplyPrefix(repository, prefix_mode, prefix_value) ==
    ApplyPrefixTo(StripChar(repository, "/"), StripChar(prefix_value, "/"),
                  prefix_mode)

\* the token tests of _infer_pull_platform on the lowered probe
PlatformOf(probe) ==
    IF Contains(probe, "x86") \/ Contains(probe, "amd64") THEN <<"linux/amd64">>
    ELSE IF Contains(probe, "arm64") \/ Contains(probe, "aarch64")
         THEN <<"linux/arm64">>
    ELSE <<>>

\* _infer_pull_platform: the platform text, <<>> for None
InferPullPlatform(repository, tag) ==
    PlatformOf(Lower(repository \o <<":">> \o tag))

\* -------------------------------------------------------------------------
\* Values
\* -------------------------------------------------------------------------
\* str | None
None == [some |-> FALSE, text |-> <<>>]

Some(t) == [some |-> TRUE, text |-> t]

\* an argv as one text: " ".join(cmd_list)
Printable(cmd) == Join(cmd, <<" ">>)

\* str(RuntimeError(f"Command failed ({return_code}): {printable}"))
CommandFailedText(return_code, printable) ==
    <<"Command failed (", ToString(return_code), "): ">> \o printable

\* str(exc) of the OSError that Popen raises when it cannot spawn
SpawnFailedText(cmd) == <<"[Errno 2] No such file or directory: ">> \o cmd[1]

\* f"{failures} command(s) failed"
FailureCountText(failures) == <<ToString(failures), " command(s) failed">>

\* a plan builder's result when it raises
Raised(message) ==
    [ok |-> FALSE, error |-> message, source_image |-> <<>>, target_image |-> <<>>,
     job_type |-> "", total_items |-> 0, commands |-> <<>>,
     continue_on_error |-> FALSE, extra_logs |-> <<>>, cleanup |-> FALSE,
     targets |-> <<>>]

\* a plan builder's result when it reaches _create_and_start_job
Planned(source_image, target_image, job_type, total_items, commands, continue_on_error, extra_logs, cleanup, targets) ==
    [ok |-> TRUE, error |-> "", source_image |-> source_image,
     target_image |-> target_image, job_type |-> job_type,
     total_items |-> total_items, commands |-> commands,
     continue_on_error |-> continue_on_error, extra_logs |-> extra_logs,
     cleanup |-> cleanup, targets |-> targets]

\* mappings[:limit] as "[map]" lines, then the "... more" line
MapLines(mappings, limit) ==
    [i \in 1..Min(Len(mappings), limit) |-> <<"[map]", " ">> \o mappings[i]]
    \o (IF Len(mappings) > limit
        THEN << <<"[map]", " ", "... (", ToString(Len(mappings) - limit), " more)">> >>
        ELSE <<>>)

\* -------------------------------------------------------------------------
\* Plan builders: the part of each create call before _create_and_start_job
\* and the log lines and cleanup thread the call adds after it
\* -------------------------------------------------------------------------
\* three commands that push before they pull
MirrorCommandsPushFirst(source, target_image) ==
    << << <<"docker">>, <<"push">>, target_image >>,
       << <<"docker">>, <<"tag">>, source, target_image >>,
       << <<"docker">>, <<"pull">>, source >> >>

\* the three commands of create_job
MirrorCommands(source, target_image) ==
    << << <<"docker">>, <<"pull">>, source >>,
       << <<"docker">>, <<"tag">>, source, target_image >>,
       << <<"docker">>, <<"push">>, target_image >> >>

\* f"{self.registry_push_host}/{repository}:{tag}"
ImageRef(host, repository, tag) == host \o <<"/">> \o repository \o <<":">> \o tag

MirrorPlanned(source, split, target_image) ==
    IF ~split.ok THEN Raised(split.error)
    ELSE Planned(source, target_image, "mirror", 1,
                 MirrorCommands(source, target_image), FALSE, <<>>, FALSE, <<>>)

MirrorSplit(req, push_host, split) ==
    MirrorPlanned(Strip(req.source_image), split,
                  ImageRef(push_host,
                           OrDefault(Strip(req.target_repository), split.repo),
                           OrDefault(Strip(req.target_tag), split.tag)))

\* create_job
BuildMirror(req, push_host) ==
    MirrorSplit(req, push_host, SplitSourceImage(req.source_image))

\* what the loop of a create call has appended so far; ok = FALSE once it
\* has raised
NoItems ==
    [ok |-> TRUE, error |-> "", commands |-> <<>>, mappings |-> <<>>,
     targets |-> <<>>, total_tags |-> 0]

Fail(items, message) == [items EXCEPT !.ok = FALSE, !.error = message]

\* (target_registry_host or self.registry_push_host).strip().rstrip("/")
RegistryHost(target_registry_host, push_host) ==
    RStripChar(Strip(OrDefault(target_registry_host, push_host)), "/")

\* a tag that gets the suffix whether or not it ends with it
TargetTagAlways(tag, arch_label) ==
    IF arch_label # <<>> THEN tag \o <<"-">> \o arch_label ELSE tag

\* target_tag of one pass of the loop of create_local_push_job
TargetTag(tag, arch_label) ==
    IF arch_label # <<>> /\ ~EndsWith(tag, <<"-">> \o arch_label)
    THEN tag \o <<"-">> \o arch_label
    ELSE tag

\* the appends of one pass of the loop of create_local_push_job
LocalPushAppend(items, source_ref, split, target_ref, req) ==
    [items EXCEPT
        !.mappings = Append(@, source_ref \o <<" ", "=>", " ">> \o target_ref),
        !.commands = @ \o << << <<"docker">>, <<"tag">>, source_ref, target_ref >>,
                             << <<"docker">>, <<"push">>, target_ref >> >>
                       \o (IF req.cleanup_local_tag
                           THEN << << <<"docker">>, <<"image">>, <<"rm">>,
                                      source_ref >> >>
                           ELSE <<>>),
        !.targets = @ \o (IF req.cleanup_registry_source_tag
                          THEN << <<split.repo, split.tag>> >> ELSE <<>>)]

\* one pass of that loop after _apply_prefix
LocalPushPrefixed(items, source_ref, split, updated, arch_label, registry_host, req) ==
    IF ~updated.ok THEN Fail(items, "Unsupported prefix mode.")
    ELSE IF updated.repo = <<>>
         THEN Fail(items, "Prefix operation removed repository name entirely.")
    ELSE LocalPushAppend(items, source_ref, split,
                         ImageRef(registry_host, updated.repo,
                                  TargetTag(split.tag, arch_label)), req)

\* one pass of that loop after _split_source_image
LocalPushSplit(items, source_ref, split, prefix_mode, arch_label, registry_host, req) ==
    IF ~split.ok THEN Fail(items, split.error)
    ELSE LocalPushPrefixed(items, source_ref, split,
                           ApplyPrefix(split.repo, prefix_mode, req.prefix_value),
                           arch_label, registry_host, req)

\* the loop of create_local_push_job over cleaned_refs
RECURSIVE LocalPushItems(_, _, _, _, _, _)
LocalPushItems(items, refs, prefix_mode, arch_label, registry_host, req) ==
    IF refs = <<>> \/ ~items.ok THEN items
    ELSE LocalPushItems(LocalPushSplit(items, Head(refs), SplitSourceImage(Head(refs)),
                                       prefix_mode, arch_label, registry_host, req),
                        Tail(refs), prefix_mode, arch_label, registry_host, req)

\* arch_label of create_local_push_job
ArchLabel(normalized_arch_mode, arch_value, host_machine) ==
    IF normalized_arch_mode = <<"auto">> THEN DetectArchLabel(host_machine)
    ELSE IF normalized_arch_mode = <<"custom">> THEN Lower(Strip(arch_value))
    ELSE <<>>

\* the raises of create_local_push_job before its loop: the message, "" when
\* none is raised
LocalPushError(cleaned_refs, normalized_arch_mode, normalized_prefix_mode, registry_host, arch_label) ==
    IF cleaned_refs = <<>> THEN "At least one local image is required."
    ELSE IF normalized_arch_mode \notin {<<"auto">>, <<"custom">>, <<"none">>}
         THEN "arch_mode must be one of: auto, custom, none."
    ELSE IF normalized_prefix_mode \notin {<<"add">>, <<"remove">>, <<"none">>}
         THEN "prefix_mode must be one of: add, remove, none."
    ELSE IF registry_host = <<>> THEN "target_registry_host cannot be empty."
    ELSE IF normalized_arch_mode = <<"custom">> /\ arch_label = <<>>
         THEN "arch_value is required when arch_mode=custom."
    ELSE ""

\* the "[plan]" line of create_local_push_job
LocalPushPlanLine(normalized_arch_mode, arch_label, normalized_prefix_mode, prefix_value) ==
    <<"[plan]", " ", "arch_mode=">> \o normalized_arch_mode
    \o <<" ", "arch=">> \o OrDefault(arch_label, <<"-">>)
    \o <<" ", "prefix_mode=">> \o normalized_prefix_mode
    \o <<" ", "prefix=">> \o OrDefault(prefix_value, <<"-">>)

\* a local push that is planned with registry cleanup whatever was requested
LocalPushPlannedWithCleanup(req, cleaned_refs, normalized_arch_mode, normalized_prefix_mode, registry_host, arch_label, error, items) ==
    IF error # "" THEN Raised(error)
    ELSE IF ~items.ok THEN Raised(items.error)
    ELSE Planned(<<ToString(Len(cleaned_refs)), " local images">>, registry_host,
                 "local-push", Len(cleaned_refs), items.commands, FALSE,
                 << LocalPushPlanLine(normalized_arch_mode, arch_label,
                                      normalized_prefix_mode, req.prefix_value) >>
                 \o MapLines(items.mappings, 120),
                 TRUE, items.targets)

\* the job and the log lines of create_local_push_job
LocalPushPlanned(req, cleaned_refs, normalized_arch_mode, normalized_prefix_mode, registry_host, arch_label, error, items) ==
    IF error # "" THEN Raised(error)
    ELSE IF ~items.ok THEN Raised(items.error)
    ELSE Planned(<<ToString(Len(cleaned_refs)), " local images">>, registry_host,
                 "local-push", Len(cleaned_refs), items.commands, FALSE,
                 << LocalPushPlanLine(normalized_arch_mode, arch_label,
                                      normalized_prefix_mode, req.prefix_value) >>
                 \o MapLines(items.mappings, 120)
                 \o (IF req.cleanup_registry_source_tag
                     THEN << <<"[cleanup]", " ",
                               "registry source tag cleanup is enabled.">> >>
                     ELSE <<>>),
                 req.cleanup_registry_source_tag, items.targets)

LocalPushLabelled(req, cleaned_refs, normalized_arch_mode, normalized_prefix_mode, registry_host, arch_label) ==
    LocalPushPlanned(req, cleaned_refs, normalized_arch_mode, normalized_prefix_mode,
                     registry_host, arch_label,
                     LocalPushError(cleaned_refs, normalized_arch_mode,
                                    normalized_prefix_mode, registry_host, arch_label),
                     LocalPushItems(NoItems, cleaned_refs, normalized_prefix_mode,
                                    arch_label, registry_host, req))

LocalPushNormalized(req, cleaned_refs, normalized_arch_mode, normalized_prefix_mode, registry_host, host_machine) ==
    LocalPushLabelled(req, cleaned_refs, normalized_arch_mode, normalized_prefix_mode,
                      registry_host,
                      ArchLabel(normalized_arch_mode, req.arch_value, host_machine))

\* create_local_push_job
BuildLocalPush(req, push_host, host_machine) ==
    LocalPushNormalized(req, StripNonBlank(req.image_refs),
                        OrDefault(Lower(Strip(req.arch_mode)), <<"auto">>),
                        OrDefault(Lower(Strip(req.prefix_mode)), <<"none">>),
                        RegistryHost(req.target_registry_host, push_host),
                        host_machine)

\* _list_registry_tags on one response: [ok, tags]; ok = FALSE is the error
ListRegistryTags(response) ==
    IF response.status = 0 THEN [ok |-> FALSE, tags |-> <<>>]
    ELSE IF response.status = 404 THEN [ok |-> TRUE, tags |-> <<>>]
    ELSE IF response.status >= 400 THEN [ok |-> FALSE, tags |-> <<>>]
    ELSE [ok |-> TRUE, tags |-> response.tags]

\* RegistryClient._request: the response, or the RegistryError raised for a
\* transport error (status 0 here) and for a status of 400 or more
RegistryRequest(method, response) ==
    IF response.status = 0 THEN [ok |-> FALSE, status_code |-> 502]
    ELSE IF response.status >= 400
         THEN [ok |-> FALSE,
               status_code |-> IF method = "DELETE" /\ response.status = 405 THEN 405
                               ELSE response.status]
    ELSE [ok |-> TRUE, status_code |-> response.status]

\* RegistryClient.list_tags: what _request raises, or the tags of the payload
ListTags(response) ==
    LET requested == RegistryRequest("GET", response)
    IN IF ~requested.ok
       THEN [ok |-> FALSE, status_code |-> requested.status_code, tags |-> <<>>]
       ELSE [ok |-> TRUE, status_code |-> requested.status_code,
             tags |-> response.tags]

\* the appends of one pass of the inner loop of create_remote_prefix_job
RemoteTagAppend(items, repository, tag, source_ref, target_ref, platform_value, cleanup_source_tag) ==
    [items EXCEPT
        !.commands = @ \o
            << (IF platform_value # <<>>
                THEN << <<"docker">>, <<"pull">>, <<"--platform">>, platform_value,
                        source_ref >>
                ELSE << <<"docker">>, <<"pull">>, source_ref >>),
               << <<"docker">>, <<"tag">>, source_ref, target_ref >>,
               << <<"docker">>, <<"push">>, target_ref >> >>,
        !.mappings = Append(@, IF platform_value # <<>>
                               THEN source_ref \o <<" ", "[">> \o platform_value
                                    \o <<"]", " ", "=>", " ">> \o target_ref
                               ELSE source_ref \o <<" ", "=>", " ">> \o target_ref),
        !.total_tags = @ + 1,
        !.targets = @ \o (IF cleanup_source_tag THEN << <<repository, tag>> >>
                          ELSE <<>>)]

\* the inner loop of create_remote_prefix_job over the tags of a repository
RECURSIVE RemoteTagItems(_, _, _, _, _, _)
RemoteTagItems(items, tags, repository, new_repository, registry_host, cleanup_source_tag) ==
    IF tags = <<>> THEN items
    ELSE RemoteTagItems(RemoteTagAppend(items, repository, Head(tags),
                                        ImageRef(registry_host, repository, Head(tags)),
                                        ImageRef(registry_host, new_repository,
                                                 Head(tags)),
                                        InferPullPlatform(repository, Head(tags)),
                                        cleanup_source_tag),
                        Tail(tags), repository, new_repository, registry_host,
                        cleanup_source_tag)

\* a pass that renames a repository onto itself: what C21 rules out
RemoteRenamedOntoItself(items, repository, tags, renamed, registry_host, cleanup_source_tag) ==
    IF ~renamed.ok THEN Fail(items, "Unsupported prefix mode.")
    ELSE IF renamed.repo = <<>> THEN Fail(items, "Prefix operation removed repository.")
    ELSE RemoteTagItems(items, tags, repository, renamed.repo, registry_host,
                        cleanup_source_tag)

\* one pass of the outer loop after _apply_prefix
RemoteRenamed(items, repository, tags, renamed, registry_host, cleanup_source_tag) ==
    IF ~renamed.ok THEN Fail(items, "Unsupported prefix mode.")
    ELSE IF renamed.repo = <<>> THEN Fail(items, "Prefix operation removed repository.")
    ELSE IF renamed.repo = repository
         THEN [items EXCEPT !.mappings = Append(@, repository \o <<" ", "(unchanged)">>)]
    ELSE RemoteTagItems(items, tags, repository, renamed.repo, registry_host,
                        cleanup_source_tag)

\* one pass of the outer loop after _list_registry_tags
RemoteListed(items, repository, listed, prefix_mode, prefix, registry_host, cleanup_source_tag) ==
    IF ~listed.ok THEN Fail(items, "list tags failed")
    ELSE IF listed.tags = <<>>
         THEN [items EXCEPT !.mappings = Append(@, repository \o <<" ", "(no tags)">>)]
    ELSE RemoteRenamed(items, repository, listed.tags,
                       ApplyPrefix(repository, prefix_mode, prefix), registry_host,
                       cleanup_source_tag)

\* the loop of create_remote_prefix_job over repos; responses[i] is the
\* registry's answer to the tag listing of the i-th repository
RECURSIVE RemoteItems(_, _, _, _, _, _, _)
RemoteItems(items, repos, responses, prefix_mode, prefix, registry_host, cleanup_source_tag) ==
    IF repos = <<>> \/ ~items.ok THEN items
    ELSE RemoteItems(RemoteListed(items, Head(repos), ListRegistryTags(Head(responses)),
                                  prefix_mode, prefix, registry_host,
                                  cleanup_source_tag),
                     Tail(repos), Tail(responses), prefix_mode, prefix, registry_host,
                     cleanup_source_tag)

\* [item.strip().strip("/") for item in repositories if item and item.strip()]
RECURSIVE CleanRepositories(_)
CleanRepositories(items) ==
    IF items = <<>> THEN <<>>
    ELSE IF Strip(Head(items)) # <<>>
         THEN <<StripChar(Strip(Head(items)), "/")>> \o CleanRepositories(Tail(items))
    ELSE CleanRepositories(Tail(items))

\* the raises of create_remote_prefix_job before its loop: the message, ""
\* when none is raised
RemotePrefixError(repos, normalized_prefix_mode, normalized_prefix, registry_host, api_url) ==
    IF repos = <<>> THEN "At least one repository is required."
    ELSE IF normalized_prefix_mode \notin {<<"add">>, <<"remove">>}
         THEN "prefix_mode must be add or remove."
    ELSE IF normalized_prefix = <<>> THEN "prefix_value cannot be empty."
    ELSE IF registry_host = <<>> THEN "target_registry_host cannot be empty."
    ELSE IF api_url = <<>> THEN "registry_api_url is empty, cannot query remote tags."
    ELSE ""

\* the "[plan]" line of create_remote_prefix_job
RemotePrefixPlanLine(normalized_prefix_mode, normalized_prefix, cleanup_source_tag) ==
    <<"[plan]", " ", "remote-prefix", " ", "mode=">> \o normalized_prefix_mode
    \o <<" ", "prefix=">> \o normalized_prefix
    \o <<" ", "cleanup_source_tag=", ToString(cleanup_source_tag)>>

\* the job and the log lines of create_remote_prefix_job
RemotePrefixPlanned(req, repos, normalized_prefix_mode, normalized_prefix, registry_host, error, items) ==
    IF error # "" THEN Raised(error)
    ELSE IF ~items.ok THEN Raised(items.error)
    ELSE IF items.total_tags = 0
         THEN Raised("No tags found to rename for selected repositories.")
    ELSE Planned(<<ToString(Len(repos)), " remote repositories">>, registry_host,
                 "remote-prefix", items.total_tags, items.commands, TRUE,
                 << RemotePrefixPlanLine(normalized_prefix_mode, normalized_prefix,
                                         req.cleanup_source_tag) >>
                 \o MapLines(items.mappings, 200),
                 req.cleanup_source_tag, items.targets)

RemotePrefixNormalized(req, responses, repos, normalized_prefix_mode, normalized_prefix, registry_host, api_url) ==
    RemotePrefixPlanned(req, repos, normalized_prefix_mode, normalized_prefix,
                        registry_host,
                        RemotePrefixError(repos, normalized_prefix_mode,
                                          normalized_prefix, registry_host, api_url),
                        RemoteItems(NoItems, repos, responses, normalized_prefix_mode,
                                    normalized_prefix, registry_host,
                                    req.cleanup_source_tag))

\* create_remote_prefix_job
BuildRemotePrefix(req, responses, push_host, api_url) ==
    RemotePrefixNormalized(req, responses, CleanRepositories(req.repositories),
                           OrDefault(Lower(Strip(req.prefix_mode)), <<"add">>),
                           StripChar(Strip(req.prefix_value), "/"),
                           RegistryHost(req.target_registry_host, push_host), api_url)

\* create_repository_delete_job: one deletion step per selected repository,
\* run with continue_on_error; no log lines of its own and no cleanup thread
BuildRepositoryDelete(req) ==
    IF req.repositories = <<>> THEN Raised("At least one repository is required.")
    ELSE Planned(<<ToString(Len(req.repositories)), " repositories">>, <<>>,
                 "repository-delete", Len(req.repositories),
                 [i \in 1..Len(req.repositories) |->
                     << <<"delete">>, req.repositories[i] >>],
                 TRUE, <<>>, FALSE, <<>>)

\* -------------------------------------------------------------------------
\* Inputs
\* -------------------------------------------------------------------------
PushHost == <<"registry", ".", "local", ":", "5000">>

ApiUrl == <<"http", ":", "/", "/", "registry", ".", "local", ":", "5000">>

\* the SyncJobManager constructions: push host, api url (<<>> for None) and
\* the configured retention, below and above the floor
Constructions ==
    { [registry_push_host |-> PushHost \o <<"/">>, registry_api_url |-> ApiUrl,
       retention |-> 1],
      [registry_push_host |-> <<>>, registry_api_url |-> <<>>, retention |-> 21] }

\* platform.machine() of the host
HostMachines == { <<"x86_64">> }

AnyMirrorRequests ==
    { [source_image |-> <<"nginx", ":", "1", ".", "27">>, target_repository |-> <<>>,
       target_tag |-> <<>>],
      [source_image |-> <<" ">>, target_repository |-> <<>>, target_tag |-> <<>>],
      [source_image |-> <<"nginx", ":", "1", ".", "27">>,
       target_repository |-> <<"mirror", "/", "nginx">>, target_tag |-> <<" ">>],
      [source_image |-> <<"nginx", ":", "1", ".", "27">>, target_repository |-> <<>>,
       target_tag |-> <<"stable">>],
      [source_image |-> <<"docker", ".", "io", "/", "library", "/", "nginx">>,
       target_repository |-> <<>>, target_tag |-> <<>>],
      [source_image |-> <<"nginx", "@", "sha256", ":", "d1">>,
       target_repository |-> <<>>, target_tag |-> <<>>],
      [source_image |-> <<" ", "nginx", ":", "1", ".", "27", " ">>,
       target_repository |-> <<" ", "mirror", "/", "nginx">>,
       target_tag |-> <<"stable", " ">>] }

LocalPushBase ==
    [image_refs |-> << <<"app", ":", "1", ".", "0">> >>, prefix_mode |-> <<"add">>,
     prefix_value |-> <<"x86">>, arch_mode |-> <<"custom">>, arch_value |-> <<"x86">>,
     target_registry_host |-> PushHost, cleanup_local_tag |-> FALSE,
     cleanup_registry_source_tag |-> TRUE]

AnyLocalPushRequests ==
    { LocalPushBase,
      [LocalPushBase EXCEPT !.image_refs = << <<"app", ":", "1", ".", "0">>,
                                              <<"web">>,
                                              <<"app", ":", "1", ".", "0">> >>,
                            !.prefix_mode = <<" ", "NONE">>,
                            !.arch_mode = <<"none">>],
      [LocalPushBase EXCEPT !.cleanup_registry_source_tag = FALSE,
                            !.cleanup_local_tag = TRUE,
                            !.arch_mode = <<>>],
      [LocalPushBase EXCEPT !.image_refs = <<>>],
      [LocalPushBase EXCEPT !.image_refs = << <<" ">>, <<>> >>],
      [LocalPushBase EXCEPT !.arch_mode = <<"arm64">>],
      [LocalPushBase EXCEPT !.prefix_mode = <<"rename">>],
      [LocalPushBase EXCEPT !.prefix_value = <<>>],
      [LocalPushBase EXCEPT !.prefix_mode = <<"remove">>, !.prefix_value = <<>>],
      [LocalPushBase EXCEPT !.prefix_mode = <<"remove">>, !.prefix_value = <<"app">>],
      [LocalPushBase EXCEPT !.arch_value = <<" ">>],
      [LocalPushBase EXCEPT !.target_registry_host = <<>>],
      [LocalPushBase EXCEPT !.image_refs = << <<"localhost", "/">> >>],
      [LocalPushBase EXCEPT !.image_refs = << <<"app", ":", "1", ".", "0", "-", "x86">>,
                                              <<" ", "web", " ">> >>,
                            !.cleanup_local_tag = TRUE] }

RemotePrefixBase ==
    [repositories |-> << <<"app">> >>, prefix_mode |-> <<"add">>,
     prefix_value |-> <<"x86">>, cleanup_source_tag |-> TRUE,
     target_registry_host |-> <<>>]

AnyRemotePrefixRequests ==
    { RemotePrefixBase,
      [RemotePrefixBase EXCEPT !.repositories = << <<"x86", "/", "app">>, <<"app">> >>,
                               !.cleanup_source_tag = FALSE,
                               !.target_registry_host = PushHost],
      [RemotePrefixBase EXCEPT !.repositories = << <<" ">> >>],
      [RemotePrefixBase EXCEPT !.prefix_mode = <<"none">>],
      [RemotePrefixBase EXCEPT !.prefix_value = <<"/">>],
      [RemotePrefixBase EXCEPT !.prefix_mode = <<"REMOVE">>, !.prefix_value = <<"app">>],
      [RemotePrefixBase EXCEPT !.target_registry_host = <<" ", "/">>] }

\* the registry's answers to a tag listing; status 0 is a transport error
TagResponses ==
    { [status |-> 200, tags |-> << <<"1", ".", "0">> >>],
      [status |-> 200, tags |-> <<>>],
      [status |-> 404, tags |-> <<>>],
      [status |-> 500, tags |-> <<>>],
      [status |-> 0, tags |-> <<>>] }

\* the answers to the tag listings of the calls that are only planned: also
\* a repository with two tags, one of which names a platform
AnyTagResponses ==
    TagResponses \cup { [status |-> 200, tags |-> << <<"1", ".", "0">>, <<"arm64">> >>] }

\* the requests whose jobs are followed through their whole life: a mirror
\* job, a local push of one image and a rename of one repository, the last
\* two with registry cleanup
MirrorRequests ==
    { [source_image |-> <<"nginx", ":", "1", ".", "27">>, target_repository |-> <<>>,
       target_tag |-> <<>>] }

LocalPushRequests == { LocalPushBase }

\* a local push of three images, one of them twice, with registry cleanup
ManyTargetRequests ==
    { [LocalPushBase EXCEPT !.image_refs = << <<"app", ":", "1", ".", "0">>,
                                              <<"web">>,
                                              <<"app", ":", "1", ".", "0">> >>] }

RemotePrefixRequests == { RemotePrefixBase }

\* a local push and a rename, each with and without registry cleanup
EitherLocalPushRequests ==
    { LocalPushBase, [LocalPushBase EXCEPT !.cleanup_registry_source_tag = FALSE] }

EitherRemotePrefixRequests ==
    { RemotePrefixBase, [RemotePrefixBase EXCEPT !.cleanup_source_tag = FALSE] }

\* the requests of create_repository_delete_job: two repositories, and none
RepositoryDeleteRequests ==
    { [repositories |-> << <<"app">>, <<"web">> >>], [repositories |-> <<>>] }

\* the registry's answers to HEAD and GET of a manifest: a status and the
\* Docker-Content-Digest header (<<>> when absent); status 0 is a transport
\* error
ManifestResponses ==
    { [status |-> 200, digest |-> <<"sha256", ":", "d1">>],
      [status |-> 200, digest |-> <<" ">>],
      [status |-> 404, digest |-> <<>>],
      [status |-> 500, digest |-> <<>>],
      [status |-> 0, digest |-> <<>>] }

\* the registry's answers to DELETE of a manifest
DeleteResponses == { 202, 404, 500, 0 }

\* the texts of at most n atoms over an alphabet
Texts(alphabet, n) == UNION { [1..k -> alphabet] : k \in 0..n }

\* the repository names, prefix values and prefix modes given to
\* _apply_prefix; an atom is one character
MaxRepositoryLen == 3

MaxPrefixLen == 2

Repositories == Texts({"a", "b", "/"}, MaxRepositoryLen)

PrefixValues == Texts({"a", "b", "/"}, MaxPrefixLen) \cup { <<"a", "/", "b">> }

PrefixModes == { <<"add">>, <<"remove">>, <<"none">>, <<"rename">> }

\* the image references given to _split_source_image; "localhost" is one atom
MaxReferenceLen == 5

References == Texts({"a", ":", "/", ".", "@", " ", "localhost"}, MaxReferenceLen)

\* the limits of list_jobs: the API admits 1..100
MaxLimit == 3

Limits == 1..MaxLimit

\* exit codes of a command
MaxExitCode == 1

ExitCodes == 0..MaxExitCode

\* the number of lines of a command that writes more lines than a job keeps
MaxLongOutput == 300

\* the lines a command can write: text, or a line that is blank after rstrip
OutputLines == { <<"out">>, <<" ">> }

\* -------------------------------------------------------------------------
\* Job store (SyncJobManager._jobs and the SyncJob objects)
\* -------------------------------------------------------------------------
\* the cap of SyncJob.logs
LogCap == 300

\* the floor of the retention
RetentionFloor == 20

\* SyncJobManager.__init__: self.retention
Retention(configured) == Max(configured, RetentionFloor)

\* a SyncJob that is constructed with status success: what C5 rules out
NewJobSucceeded(id, plan) ==
    [id |-> id, source_image |-> plan.source_image, target_image |-> plan.target_image,
     job_type |-> plan.job_type, total_items |-> plan.total_items,
     status |-> "success", logs |-> <<>>, error |-> None, updates |-> 0]

\* SyncJob(...) as constructed by the create calls
NewJob(id, plan) ==
    [id |-> id, source_image |-> plan.source_image, target_image |-> plan.target_image,
     job_type |-> plan.job_type, total_items |-> plan.total_items,
     status |-> "running", logs |-> <<>>, error |-> None, updates |-> 0]

\* the keys of the OrderedDict
Keys(order) == { order[i] : i \in 1..Len(order) }

\* an eviction that spares the oldest job and drops the ones after it
EvictSecondOldest(order, cap) ==
    IF Len(order) > cap
    THEN <<Head(order)>> \o Slice(order, Len(order) - cap + 2, Len(order))
    ELSE order

\* the while loop of _insert_job: popitem(last=False) while over the cap
RECURSIVE EvictOldest(_, _)
EvictOldest(order, cap) ==
    IF Len(order) > cap THEN EvictOldest(Tail(order), cap) ELSE order

\* an insert that evicts nothing: what C10 rules out
InsertJobKeepAll(order, id, cap) == Append(order, id)

\* _insert_job on the key order of the store (job ids are fresh)
InsertJob(order, id, cap) == EvictOldest(Append(order, id), cap)

\* f"{timestamp} {message}"
Stamp(message) == <<"%H:%M:%S", " ">> \o message

\* logs that are never cut
TrimNothing(logs) == logs

\* job.logs = job.logs[-300:] when there are more than 300
Trim(logs) ==
    IF Len(logs) > LogCap THEN Slice(logs, Len(logs) - LogCap + 1, Len(logs)) ELSE logs

\* logs that take a new line at the front
PrependTrim(logs, line) == Trim(<<line>> \o logs)

\* the logs after logs.append(line) and the trim
AppendTrim(logs, line) == Trim(Append(logs, line))

\* a log write that does not look the job up in the store
AppendLogUnchecked(objects, order, id, message) ==
    [objects EXCEPT ![id].logs = AppendTrim(@, Stamp(message)),
                    ![id].updates = @ + 1]

\* _append_log on the objects: a no-op for an id that is not in the store
AppendLog(objects, order, id, message) ==
    IF id \notin Keys(order) THEN objects
    ELSE [objects EXCEPT ![id].logs = AppendTrim(@, Stamp(message)),
                         ![id].updates = @ + 1]

\* a status write that does not look the job up in the store
UpdateJobStatusUnchecked(objects, order, id, status, error) ==
    [objects EXCEPT ![id].status = status, ![id].error = error,
                    ![id].updates = @ + 1]

\* _update_job_status on the objects
UpdateJobStatus(objects, order, id, status, error) ==
    IF id \notin Keys(order) THEN objects
    ELSE [objects EXCEPT ![id].status = status, ![id].error = error,
                         ![id].updates = @ + 1]

\* list_jobs(limit): ids, most recent first
RECURSIVE Reverse(_)
Reverse(s) == IF s = <<>> THEN <<>> ELSE Append(Reverse(Tail(s)), Head(s))

\* a listing in insertion order, oldest first
ListJobsOldestFirst(order, limit) == Slice(order, 1, Min(limit, Len(order)))

\* jobs[:limit] of a list of n jobs: the number of entries of the slice (a
\* negative limit counts from the end)
SliceLen(n, limit) == IF limit >= 0 THEN Min(limit, n) ELSE Max(n + limit, 0)

ListJobs(order, limit) == Slice(Reverse(order), 1, SliceLen(Len(order), limit))

\* -------------------------------------------------------------------------
\* State
\* -------------------------------------------------------------------------
VARIABLES
    registry_push_host,  \* SyncJobManager.registry_push_host
    registry_api_url,    \* SyncJobManager.registry_api_url, <<>> when empty
    retention,           \* SyncJobManager.retention
    host_machine,        \* platform.machine()
    jobs,                \* the keys of SyncJobManager._jobs, oldest first
    objects,             \* the SyncJob objects of the followed calls by id,
                         \* evicted ones included
    call,                \* the create calls that are followed: position and locals
    runner,              \* the _run_commands_job thread of each followed call
    cleaner,             \* the _wait_then_cleanup_registry_source_tags thread
    others,              \* number of further create_job calls that inserted
    history,             \* observations: what each thread did, in order
    observed,            \* the calls of list_jobs and of the reference parser
                         \* that were made last, with what they returned
    sync                 \* SyncJobManager._lock, and the threads of one job
                         \* followed statement by statement: who holds the
                         \* lock, where each thread is, which threads run

vars == <<registry_push_host, registry_api_url, retention, host_machine, jobs,
          objects, call, runner, cleaner, others, history, observed, sync>>

Calls == 1..MaxCalls

IdleCall == [pc |-> "idle", kind |-> "", req |-> <<>>, answers |-> <<>>,
             plan |-> Raised(""), job_id |-> 0, pending |-> <<>>]

IdleRunner == [pc |-> "idle", idx |-> 1, failures |-> 0, lines |-> 0, exc |-> <<>>]

IdleCleaner == [pc |-> "idle", targets |-> <<>>, ti |-> 1, digest |-> <<>>,
                exc |-> <<>>]

\* history[c]: started = the commands that were issued (Popen was called);
\* exits = how each ended (return code, -1 when it could not be spawned);
\* requests = the registry requests of the cleanup thread; writes = the
\* calls of _update_job_status; inserts = number of _insert_job calls
NoHistory == [started |-> <<>>, exits |-> <<>>, requests |-> <<>>, writes |-> <<>>,
              inserts |-> 0, runners |-> 0, cleaners |-> 0]

\* threading.Lock() is free, and the creating call is the only thread
IdleSync ==
    [lock |-> "", at |-> [t \in {"creator", "runner", "cleanup"} |-> 1],
     running |-> {"creator"}]

\* the state after the construction of a SyncJobManager, with the create
\* calls that are followed
InitOf(calls) ==
    /\ \E m \in Constructions :
          /\ registry_push_host = RStripChar(m.registry_push_host, "/")
          /\ registry_api_url = RStripChar(m.registry_api_url, "/")
          /\ retention = Retention(m.retention)
    /\ host_machine \in HostMachines
    /\ jobs = <<>>
    /\ objects = [id \in {} |-> NewJob(id, Raised(""))]
    /\ call = [c \in calls |-> IdleCall]
    /\ runner = [c \in calls |-> IdleRunner]
    /\ cleaner = [c \in calls |-> IdleCleaner]
    /\ others = 0
    /\ history = [c \in calls |-> NoHistory]
    /\ observed = <<>>
    /\ sync = IdleSync

Init == InitOf(Calls)

\* uuid4().hex[:12]: a fresh id
FreshId == Cardinality(DOMAIN objects) + others + 1

InStore(id) == id \in Keys(jobs)

\* -------------------------------------------------------------------------
\* The create calls
\* -------------------------------------------------------------------------
\* a create call that inserts its job before it validates: what C8 rules out
EnterInsertFirst(c, kind, req, answers, plan) ==
    /\ call[c].pc = "idle"
    /\ jobs' = InsertJob(jobs, FreshId, retention)
    /\ objects' = objects @@ (FreshId :> NewJob(FreshId, plan))
    /\ call' = [call EXCEPT ![c] = [pc |-> IF plan.ok THEN "inserted" ELSE "raised",
                                    kind |-> kind, req |-> req,
                                    answers |-> answers, plan |-> plan,
                                    job_id |-> FreshId,
                                    pending |-> plan.extra_logs]]
    /\ history' = [history EXCEPT ![c].inserts = @ + 1]
    /\ UNCHANGED <<sync, observed, registry_push_host, registry_api_url, retention,
                   host_machine, runner, cleaner, others>>

\* a create call up to and including _insert_job, or up to its raise
Enter(c, kind, req, answers, plan) ==
    /\ call[c].pc = "idle"
    /\ IF plan.ok
       THEN /\ jobs' = InsertJob(jobs, FreshId, retention)
            /\ objects' = objects @@ (FreshId :> NewJob(FreshId, plan))
            /\ call' = [call EXCEPT ![c] = [pc |-> "inserted", kind |-> kind,
                                            req |-> req, answers |-> answers,
                                            plan |-> plan,
                                            job_id |-> FreshId,
                                            pending |-> plan.extra_logs]]
            /\ history' = [history EXCEPT ![c].inserts = @ + 1]
       ELSE /\ call' = [call EXCEPT ![c] = [pc |-> "raised", kind |-> kind,
                                            req |-> req, answers |-> answers,
                                            plan |-> plan,
                                            job_id |-> 0, pending |-> <<>>]]
            /\ UNCHANGED <<jobs, objects, history>>
    /\ UNCHANGED <<sync, observed, registry_push_host, registry_api_url, retention,
                   host_machine, runner, cleaner, others>>

\* create_job on one of the given requests
CreateJobOf(c, requests) ==
    \E req \in requests :
        \E plan \in { BuildMirror(req, registry_push_host) } :
            Enter(c, "create_job", req, <<>>, plan)

\* create_local_push_job
CreateLocalPushJobOf(c, requests) ==
    \E req \in requests :
        \E plan \in { BuildLocalPush(req, registry_push_host, host_machine) } :
            Enter(c, "create_local_push_job", req, <<>>, plan)

\* create_remote_prefix_job; the registry answers each tag listing with one
\* of the given responses
CreateRemotePrefixJobOf(c, requests, answers) ==
    \E req \in requests :
        \E responses \in [1..Len(CleanRepositories(req.repositories)) -> answers] :
            \E plan \in { BuildRemotePrefix(req, responses, registry_push_host,
                                             registry_api_url) } :
                Enter(c, "create_remote_prefix_job", req, responses, plan)

CreateJob(c) == CreateJobOf(c, MirrorRequests)

CreateLocalPushJob(c) == CreateLocalPushJobOf(c, LocalPushRequests)

CreateRemotePrefixJob(c) == CreateRemotePrefixJobOf(c, RemotePrefixRequests, TagResponses)

\* create_repository_delete_job
CreateRepositoryDeleteJob(c) ==
    \E req \in RepositoryDeleteRequests :
        \E plan \in { BuildRepositoryDelete(req) } :
            Enter(c, "create_repository_delete_job", req, <<>>, plan)

\* _create_and_start_job after the insert: the "[init]" line and the start
\* of the runner thread
StartJob(c) ==
    LET id == call[c].job_id
        job == objects[id]
        line == <<"[init]", " ", "type=", job.job_type, " ", "source=">>
                \o job.source_image \o <<" ", "target=">> \o job.target_image
    IN /\ call[c].pc = "inserted"
       /\ objects' = AppendLog(objects, jobs, id, line)
       /\ runner' = [runner EXCEPT ![c].pc = "loop"]
       /\ history' = [history EXCEPT ![c].runners = @ + 1]
       /\ call' = [call EXCEPT ![c].pc =
                      IF call[c].pending = <<>> /\ ~call[c].plan.cleanup
                      THEN "returned" ELSE "started"]
       /\ UNCHANGED <<sync, observed, registry_push_host, registry_api_url, retention,
                      host_machine, jobs, cleaner, others>>

\* one _append_log of the creating call after the runner was started:
\* the "[plan]", "[map]" and "[cleanup]" lines
CreatorLog(c) ==
    /\ call[c].pc = "started"
    /\ call[c].pending # <<>>
    /\ objects' = AppendLog(objects, jobs, call[c].job_id, Head(call[c].pending))
    /\ call' = [call EXCEPT ![c].pending = Tail(@),
                            ![c].pc = IF Len(call[c].pending) = 1 /\ ~call[c].plan.cleanup
                                      THEN "returned" ELSE "started"]
    /\ UNCHANGED <<sync, observed, registry_push_host, registry_api_url, retention,
                   host_machine, jobs, runner, cleaner, others, history>>

\* the start of the cleanup thread, and the return
StartCleanup(c) ==
    /\ call[c].pc = "started"
    /\ call[c].pending = <<>>
    /\ call[c].plan.cleanup
    /\ cleaner' = [cleaner EXCEPT ![c].pc = "poll"]
    /\ history' = [history EXCEPT ![c].cleaners = @ + 1]
    /\ call' = [call EXCEPT ![c].pc = "returned"]
    /\ UNCHANGED <<sync, observed, registry_push_host, registry_api_url, retention,
                   host_machine, jobs, objects, runner, others>>

\* the ids first, ..., first + n - 1
RECURSIVE Ids(_, _)
Ids(first, n) == IF n = 0 THEN <<>> ELSE <<first>> \o Ids(first + 1, n - 1)

\* _insert_job of each of the ids in turn
RECURSIVE InsertAll(_, _, _)
InsertAll(order, ids, cap) ==
    IF ids = <<>> THEN order
    ELSE InsertAll(InsertJob(order, Head(ids), cap), Tail(ids), cap)

\* create_job calls of other requests: as many _insert_job calls in a row as
\* the store retains; none of the threads of these calls is scheduled
\* afterwards, and of their jobs the store's keys alone are modelled
OtherCreateJobs ==
    /\ others + retention <= MaxOther
    /\ jobs' = InsertAll(jobs, Ids(FreshId, retention), retention)
    /\ others' = others + retention
    /\ UNCHANGED <<sync, observed, registry_push_host, registry_api_url, retention,
                   host_machine, objects, call, runner, cleaner, history>>

\* one create_job call of another request, up to and including _insert_job
OtherCreateJob ==
    /\ others < MaxOther
    /\ jobs' = InsertJob(jobs, FreshId, retention)
    /\ others' = others + 1
    /\ UNCHANGED <<sync, observed, registry_push_host, registry_api_url, retention,
                   host_machine, objects, call, runner, cleaner, history>>

\* -------------------------------------------------------------------------
\* The runner thread: _run_commands_job and _run_command
\* -------------------------------------------------------------------------
Commands(c) == call[c].plan.commands

\* a loop that goes on after a failure whatever the mode: what C2 rules out
AfterFailureGoOn(r, continue_on_error, text) ==
    [r EXCEPT !.failures = @ + 1, !.idx = @ + 1, !.lines = 0, !.pc = "loop"]

\* an exception that ends the runner thread without being handled
AfterFailureUncaught(r, continue_on_error, text) ==
    [r EXCEPT !.failures = @ + 1, !.lines = 0, !.exc = text, !.pc = "done"]

\* a loop that stops at the first failure whatever the mode
AfterFailureStop(r, continue_on_error, text) ==
    [r EXCEPT !.failures = @ + 1, !.lines = 0, !.exc = text, !.pc = "abort"]

\* the except clause of the loop of _run_commands_job after the "[error]"
\* line: count the failure, then go on or re-raise
AfterFailure(r, continue_on_error, text) ==
    IF continue_on_error
    THEN [r EXCEPT !.failures = @ + 1, !.idx = @ + 1, !.lines = 0, !.pc = "loop"]
    ELSE [r EXCEPT !.failures = @ + 1, !.lines = 0, !.exc = text, !.pc = "abort"]

\* a runner that starts a command and goes on to the next without waiting
\* for its process
RunCommandDetached(c) ==
    /\ runner[c].pc = "loop"
    /\ runner[c].idx <= Len(Commands(c))
    /\ objects' = AppendLog(objects, jobs, call[c].job_id,
                            <<"[run]", " ">> \o Printable(Commands(c)[runner[c].idx]))
    /\ runner' = [runner EXCEPT ![c].idx = @ + 1, ![c].lines = 0]
    /\ history' = [history EXCEPT ![c].started = Append(@, runner[c].idx)]
    /\ UNCHANGED <<sync, observed, registry_push_host, registry_api_url, retention,
                   host_machine, jobs, call, cleaner, others>>

\* _run_command: the "[run]" line and the call of subprocess.Popen
RunCommand(c) ==
    /\ runner[c].pc = "loop"
    /\ runner[c].idx <= Len(Commands(c))
    /\ objects' = AppendLog(objects, jobs, call[c].job_id,
                            <<"[run]", " ">> \o Printable(Commands(c)[runner[c].idx]))
    /\ runner' = [runner EXCEPT ![c].pc = "popen", ![c].lines = 0]
    /\ history' = [history EXCEPT ![c].started = Append(@, runner[c].idx)]
    /\ UNCHANGED <<sync, observed, registry_push_host, registry_api_url, retention,
                   host_machine, jobs, call, cleaner, others>>

\* subprocess.Popen raises: the process cannot be spawned
PopenFails(c) ==
    LET text == SpawnFailedText(Commands(c)[runner[c].idx])
    IN /\ runner[c].pc = "popen"
       /\ objects' = AppendLog(objects, jobs, call[c].job_id, <<"[error]", " ">> \o text)
       /\ runner' = [runner EXCEPT ![c] =
                        AfterFailure(@, call[c].plan.continue_on_error, text)]
       /\ history' = [history EXCEPT ![c].exits = Append(@, -1)]
       /\ UNCHANGED <<sync, observed, registry_push_host, registry_api_url, retention,
                      host_machine, jobs, call, cleaner, others>>

\* one line of the output of the process that Popen started
ReadLine(c) ==
    /\ runner[c].pc = "popen"
    /\ runner[c].lines < MaxOutputLines
    /\ \E line \in OutputLines :
          objects' = IF RStrip(line) # <<>>
                     THEN AppendLog(objects, jobs, call[c].job_id, RStrip(line))
                     ELSE objects
    /\ runner' = [runner EXCEPT ![c].lines = @ + 1]
    /\ UNCHANGED <<sync, observed, registry_push_host, registry_api_url, retention,
                   host_machine, jobs, call, cleaner, others, history>>

\* one line of the output of a process that numbers its lines
ReadNumberedLine(c) ==
    /\ runner[c].pc = "popen"
    /\ runner[c].lines < MaxLongOutput
    /\ objects' = AppendLog(objects, jobs, call[c].job_id,
                            <<"line", " ", ToString(runner[c].lines + 1)>>)
    /\ runner' = [runner EXCEPT ![c].lines = @ + 1]
    /\ UNCHANGED <<sync, observed, registry_push_host, registry_api_url, retention,
                   host_machine, jobs, call, cleaner, others, history>>

\* end of output and process.wait()
Wait(c) ==
    /\ runner[c].pc = "popen"
    /\ \E return_code \in ExitCodes :
          LET text == CommandFailedText(return_code,
                                        Printable(Commands(c)[runner[c].idx]))
          IN /\ IF return_code # 0
                THEN /\ objects' = AppendLog(objects, jobs, call[c].job_id,
                                             <<"[error]", " ">> \o text)
                     /\ runner' = [runner EXCEPT ![c] =
                                      AfterFailure(@, call[c].plan.continue_on_error,
                                                   text)]
                ELSE /\ objects' = objects
                     /\ runner' = [runner EXCEPT ![c].idx = @ + 1, ![c].lines = 0,
                                                 ![c].pc = "loop"]
             /\ history' = [history EXCEPT ![c].exits = Append(@, return_code)]
    /\ UNCHANGED <<sync, observed, registry_push_host, registry_api_url, retention,
                   host_machine, jobs, call, cleaner, others>>

\* a runner that tolerates one failure: what C3 rules out
FinalStatusTolerant(failures) ==
    IF failures > 1
    THEN [status |-> "failed", error |-> Some(FailureCountText(failures))]
    ELSE [status |-> "success", error |-> None]

\* a runner that gives a message to a success as well
FinalStatusWithMessage(failures) ==
    [status |-> IF failures > 0 THEN "failed" ELSE "success",
     error |-> Some(FailureCountText(failures))]

\* the status and error that _run_commands_job writes after the loop
FinalStatus(failures) ==
    IF failures > 0
    THEN [status |-> "failed", error |-> Some(FailureCountText(failures))]
    ELSE [status |-> "success", error |-> None]

\* the status write of a thread, as observed
Write(by, status, id) == [by |-> by, status |-> status, applied |-> InStore(id)]

\* a runner that writes the final status while its last command still runs
FinishBeforeExit(c) ==
    LET final == FinalStatus(runner[c].failures)
    IN /\ runner[c].pc = "popen"
       /\ runner[c].idx = Len(Commands(c))
       /\ history[c].writes = <<>>
       /\ objects' = UpdateJobStatus(objects, jobs, call[c].job_id, final.status,
                                     final.error)
       /\ history' = [history EXCEPT ![c].writes =
                         Append(@, Write("runner", final.status, call[c].job_id))]
       /\ UNCHANGED <<sync, observed, registry_push_host, registry_api_url, retention,
                      host_machine, jobs, call, runner, cleaner, others>>

\* after the loop: _update_job_status
Finish(c) ==
    LET final == FinalStatus(runner[c].failures)
    IN /\ runner[c].pc = "loop"
       /\ runner[c].idx > Len(Commands(c))
       /\ objects' = UpdateJobStatus(objects, jobs, call[c].job_id, final.status,
                                     final.error)
       /\ runner' = [runner EXCEPT ![c].pc = "finished"]
       /\ history' = [history EXCEPT ![c].writes =
                         Append(@, Write("runner", final.status, call[c].job_id))]
       /\ UNCHANGED <<sync, observed, registry_push_host, registry_api_url, retention,
                      host_machine, jobs, call, cleaner, others>>

\* after the loop: the "[done]" line
DoneLog(c) ==
    /\ runner[c].pc = "finished"
    /\ objects' = AppendLog(objects, jobs, call[c].job_id,
                            IF runner[c].failures > 0
                            THEN <<"[done]", " ", "Job finished with ",
                                   ToString(runner[c].failures), " failure(s).">>
                            ELSE <<"[done]", " ", "Job finished successfully.">>)
    /\ runner' = [runner EXCEPT ![c].pc = "done"]
    /\ UNCHANGED <<sync, observed, registry_push_host, registry_api_url, retention,
                   host_machine, jobs, call, cleaner, others, history>>

\* an outer except clause that ends the runner without a status write
AbortSilently(c) ==
    /\ runner[c].pc = "abort"
    /\ runner' = [runner EXCEPT ![c].pc = "done"]
    /\ UNCHANGED <<sync, observed, registry_push_host, registry_api_url, retention,
                   host_machine, jobs, objects, call, cleaner, others, history>>

\* the outer except clause: _update_job_status(job_id, "failed", str(exc))
Abort(c) ==
    /\ runner[c].pc = "abort"
    /\ objects' = UpdateJobStatus(objects, jobs, call[c].job_id, "failed",
                                  Some(runner[c].exc))
    /\ runner' = [runner EXCEPT ![c].pc = "done"]
    /\ history' = [history EXCEPT ![c].writes =
                      Append(@, Write("runner", "failed", call[c].job_id))]
    /\ UNCHANGED <<sync, observed, registry_push_host, registry_api_url, retention,
                   host_machine, jobs, call, cleaner, others>>

\* -------------------------------------------------------------------------
\* The cleanup thread: _wait_then_cleanup_registry_source_tags and
\* _delete_registry_source_tag
\* -------------------------------------------------------------------------
\* a polling loop that does not wait for the runner: what C1 rules out
AfterPollNoWait(found, status, api_url, targets) ==
    IF ~found THEN "done"
    ELSE IF status = "failed" THEN "skip_log"
    ELSE IF api_url = <<>> THEN "no_url_log"
    ELSE IF Dedupe(targets) = <<>> THEN "done"
    ELSE "head"

\* a polling loop that cleans up after a failed job too: what C4 rules out
AfterPollAnyStatus(found, status, api_url, targets) ==
    IF ~found THEN "done"
    ELSE IF status = "running" THEN "poll"
    ELSE IF api_url = <<>> THEN "no_url_log"
    ELSE IF Dedupe(targets) = <<>> THEN "done"
    ELSE "head"

\* a polling loop that goes by the status of the job object and does not
\* stop when the job is no longer in the store
AfterPollMissingJob(found, status, api_url, targets) ==
    IF status = "running" THEN "poll"
    ELSE IF status # "success" THEN "skip_log"
    ELSE IF api_url = <<>> THEN "no_url_log"
    ELSE IF Dedupe(targets) = <<>> THEN "done"
    ELSE "head"

\* where the polling loop goes on the job it finds
AfterPoll(found, status, api_url, targets) ==
    IF ~found THEN "done"
    ELSE IF status = "running" THEN "poll"
    ELSE IF status # "success" THEN "skip_log"
    ELSE IF api_url = <<>> THEN "no_url_log"
    ELSE IF Dedupe(targets) = <<>> THEN "done"
    ELSE "head"

\* one round of the polling loop that leaves the loop (a round that finds
\* the job running sleeps and changes nothing)
Poll(c) ==
    LET id == call[c].job_id
        next == AfterPoll(InStore(id), objects[id].status, registry_api_url,
                          call[c].plan.targets)
    IN /\ cleaner[c].pc = "poll"
       /\ next # "poll"
       /\ cleaner' = [cleaner EXCEPT ![c].pc = next,
                                     ![c].targets = IF next = "head"
                                                    THEN Dedupe(call[c].plan.targets)
                                                    ELSE <<>>,
                                     ![c].ti = 1]
       /\ UNCHANGED <<sync, observed, registry_push_host, registry_api_url, retention,
                      host_machine, jobs, objects, call, runner, others, history>>

\* the log line of a cleanup that does not run
SkipLog(c) ==
    /\ cleaner[c].pc \in {"skip_log", "no_url_log"}
    /\ objects' = AppendLog(objects, jobs, call[c].job_id,
                            IF cleaner[c].pc = "skip_log"
                            THEN <<"[cleanup]", " ", "skipped because job is not successful.">>
                            ELSE <<"[cleanup]", " ",
                                   "registry_api_url is empty, cannot cleanup.">>)
    /\ cleaner' = [cleaner EXCEPT ![c].pc = "done"]
    /\ UNCHANGED <<sync, observed, registry_push_host, registry_api_url, retention,
                   host_machine, jobs, call, runner, others, history>>

Target(c) == cleaner[c].targets[cleaner[c].ti]

TargetText(c) == Target(c)[1] \o <<":">> \o Target(c)[2]

\* a registry request of the cleanup thread, as observed
Request(c, method, status, digest) ==
    [method |-> method, target |-> Target(c), response |-> status,
     digest |-> digest, job_status |-> objects[call[c].job_id].status,
     commands_done |-> Len(history[c].exits)]

\* the cleanup thread after one target is dealt with
NextTarget(k) ==
    IF k.ti < Len(k.targets)
    THEN [k EXCEPT !.ti = @ + 1, !.digest = <<>>, !.pc = "head"]
    ELSE [k EXCEPT !.digest = <<>>, !.pc = "done"]

\* an exception of _delete_registry_source_tag that ends the cleanup thread
\* without being handled
RaiseUncaught(k, text) == [k EXCEPT !.exc = text, !.pc = "done"]

\* the cleanup thread when _delete_registry_source_tag raises
Raise(k, text) == [k EXCEPT !.exc = text, !.pc = "fail_log"]

\* str(exc) of the errors of _delete_registry_source_tag
CleanupErrorText(method, target_text, status) ==
    IF status = 0 THEN <<"transport error">>
    ELSE <<"cleanup ", method, " failed ">> \o target_text
         \o <<" ", "status=", ToString(status)>>

\* what _delete_registry_source_tag does on the answer to HEAD:
\* "missing", "raise", "get" or "delete"
OnHead(response) ==
    IF response.status = 0 THEN "raise"
    ELSE IF response.status = 404 THEN "missing"
    ELSE IF response.status >= 400 THEN "raise"
    ELSE IF Strip(response.digest) = <<>> THEN "get"
    ELSE "delete"

\* what it does on the answer to the fallback GET: "raise", "no_digest"
\* or "delete"
OnGet(response) ==
    IF response.status = 0 THEN "raise"
    ELSE IF response.status >= 400 THEN "raise"
    ELSE IF Strip(response.digest) = <<>> THEN "no_digest"
    ELSE "delete"

\* a DELETE whose error statuses count as deleted: what C6 rules out
OnDeleteAnyStatus(status) ==
    IF status = 0 THEN "raise"
    ELSE IF status = 404 THEN "gone"
    ELSE "deleted"

\* what it does on the answer to DELETE: "raise", "gone" or "deleted"
OnDelete(status) ==
    IF status = 0 THEN "raise"
    ELSE IF status = 404 THEN "gone"
    ELSE IF status >= 400 THEN "raise"
    ELSE "deleted"

\* client.head(path) and what follows up to the next request
Head_(c) ==
    /\ cleaner[c].pc = "head"
    /\ \E response \in ManifestResponses :
          LET todo == OnHead(response)
          IN /\ history' = [history EXCEPT ![c].requests =
                               Append(@, Request(c, "HEAD", response.status,
                                                 Strip(response.digest)))]
             /\ objects' = IF todo = "missing"
                           THEN AppendLog(objects, jobs, call[c].job_id,
                                          <<"[cleanup]", " ", "skip missing tag ">>
                                          \o TargetText(c))
                           ELSE objects
             /\ cleaner' = [cleaner EXCEPT ![c] =
                   CASE todo = "missing" -> NextTarget(@)
                     [] todo = "raise" ->
                          Raise(@, CleanupErrorText("HEAD", TargetText(c),
                                                    response.status))
                     [] todo = "get" -> [@ EXCEPT !.pc = "get"]
                     [] OTHER -> [@ EXCEPT !.pc = "delete",
                                           !.digest = Strip(response.digest)]]
    /\ UNCHANGED <<sync, observed, registry_push_host, registry_api_url, retention,
                   host_machine, jobs, call, runner, others>>

\* client.get(path): the fallback when HEAD carries no digest
Get(c) ==
    /\ cleaner[c].pc = "get"
    /\ \E response \in ManifestResponses :
          LET todo == OnGet(response)
          IN /\ history' = [history EXCEPT ![c].requests =
                               Append(@, Request(c, "GET", response.status,
                                                 Strip(response.digest)))]
             /\ cleaner' = [cleaner EXCEPT ![c] =
                   CASE todo = "raise" ->
                          Raise(@, CleanupErrorText("GET", TargetText(c),
                                                    response.status))
                     [] todo = "no_digest" ->
                          Raise(@, <<"cleanup digest missing for ">> \o TargetText(c))
                     [] OTHER -> [@ EXCEPT !.pc = "delete",
                                           !.digest = Strip(response.digest)]]
    /\ UNCHANGED <<sync, observed, registry_push_host, registry_api_url, retention,
                   host_machine, jobs, objects, call, runner, others>>

\* client.delete(del_path) and the log line of the outcome
Delete(c) ==
    /\ cleaner[c].pc = "delete"
    /\ \E status \in DeleteResponses :
          LET todo == OnDelete(status)
          IN /\ history' = [history EXCEPT ![c].requests =
                               Append(@, Request(c, "DELETE", status, <<>>))]
             /\ objects' =
                   CASE todo = "gone" ->
                          AppendLog(objects, jobs, call[c].job_id,
                                    <<"[cleanup]", " ", "already removed ">>
                                    \o TargetText(c))
                     [] todo = "deleted" ->
                          AppendLog(objects, jobs, call[c].job_id,
                                    <<"[cleanup]", " ", "deleted source tag ">>
                                    \o TargetText(c))
                     [] OTHER -> objects
             /\ cleaner' = [cleaner EXCEPT ![c] =
                   IF todo = "raise"
                   THEN Raise(@, CleanupErrorText("DELETE", TargetText(c), status))
                   ELSE NextTarget(@)]
    /\ UNCHANGED <<sync, observed, registry_push_host, registry_api_url, retention,
                   host_machine, jobs, call, runner, others>>

\* the except clause of the cleanup: the log line
CleanupFailedLog(c) ==
    /\ cleaner[c].pc = "fail_log"
    /\ objects' = AppendLog(objects, jobs, call[c].job_id,
                            <<"[cleanup]", " ", "registry cleanup failed: ">>
                            \o cleaner[c].exc)
    /\ cleaner' = [cleaner EXCEPT ![c].pc = "fail_status"]
    /\ UNCHANGED <<sync, observed, registry_push_host, registry_api_url, retention,
                   host_machine, jobs, call, runner, others, history>>

\* f"Registry cleanup failed: {exc}"
CleanupFailedText(exc) == <<"Registry cleanup failed: ">> \o exc

\* the except clause of the cleanup: _update_job_status
CleanupFailedStatus(c) ==
    /\ cleaner[c].pc = "fail_status"
    /\ objects' = UpdateJobStatus(objects, jobs, call[c].job_id, "failed",
                                  Some(CleanupFailedText(cleaner[c].exc)))
    /\ cleaner' = [cleaner EXCEPT ![c].pc = "done"]
    /\ history' = [history EXCEPT ![c].writes =
                      Append(@, Write("cleanup", "failed", call[c].job_id))]
    /\ UNCHANGED <<sync, observed, registry_push_host, registry_api_url, retention,
                   host_machine, jobs, call, runner, others>>

\* -------------------------------------------------------------------------
\* Readers of the store and calls of the reference parser
\* -------------------------------------------------------------------------
\* list_jobs(limit): the snapshot under the lock, reversed and cut
ListJobsCall ==
    \E limit \in Limits :
        /\ observed' = <<[fn |-> "list_jobs", limit |-> limit,
                          out |-> ListJobs(jobs, limit)]>>
        /\ UNCHANGED <<sync, registry_push_host, registry_api_url, retention, host_machine,
                   jobs, objects, call, runner, cleaner, others, history>>

\* _apply_prefix(repository, prefix_mode, prefix_value), as the first call
ApplyPrefixCall ==
    /\ observed = <<>>
    /\ \E repository \in Repositories, prefix_mode \in PrefixModes,
          prefix_value \in PrefixValues :
          observed' = <<[fn |-> "_apply_prefix",
                         args |-> <<repository, prefix_mode, prefix_value>>,
                         out |-> ApplyPrefix(repository, prefix_mode, prefix_value)]>>
    /\ UNCHANGED <<sync, registry_push_host, registry_api_url, retention, host_machine,
                   jobs, objects, call, runner, cleaner, others, history>>

\* _apply_prefix on the repository that the call before returned, with the
\* same prefix value
ApplyPrefixAgain ==
    /\ Len(observed) = 1
    /\ observed[1].fn = "_apply_prefix"
    /\ observed[1].out.ok
    /\ \E prefix_mode \in PrefixModes :
          observed' = Append(observed,
                             [fn |-> "_apply_prefix",
                              args |-> <<observed[1].out.repo, prefix_mode,
                                         observed[1].args[3]>>,
                              out |-> ApplyPrefix(observed[1].out.repo, prefix_mode,
                                                  observed[1].args[3])])
    /\ UNCHANGED <<sync, registry_push_host, registry_api_url, retention, host_machine,
                   jobs, objects, call, runner, cleaner, others, history>>

\* _split_source_image(image), as the first call
SplitSourceImageCall ==
    /\ observed = <<>>
    /\ \E image \in References :
          observed' = <<[fn |-> "_split_source_image", args |-> <<image>>,
                         out |-> SplitSourceImage(image)]>>
    /\ UNCHANGED <<sync, registry_push_host, registry_api_url, retention, host_machine,
                   jobs, objects, call, runner, cleaner, others, history>>

\* RegistryClient.list_tags(repository), the registry giving an answer
ListTagsCall ==
    /\ observed = <<>>
    /\ \E repository \in Repositories, response \in AnyTagResponses :
          observed' = <<[fn |-> "list_tags", args |-> <<repository>>,
                         answer |-> response, out |-> ListTags(response)]>>
    /\ UNCHANGED <<sync, registry_push_host, registry_api_url, retention, host_machine,
                   jobs, objects, call, runner, cleaner, others, history>>

\* SyncJobManager._list_registry_tags(client, repository)
ListRegistryTagsCall ==
    /\ observed = <<>>
    /\ \E repository \in Repositories, response \in AnyTagResponses :
          observed' = <<[fn |-> "_list_registry_tags", args |-> <<repository>>,
                         answer |-> response, out |-> ListRegistryTags(response)]>>
    /\ UNCHANGED <<sync, registry_push_host, registry_api_url, retention, host_machine,
                   jobs, objects, call, runner, cleaner, others, history>>

\* -------------------------------------------------------------------------
\* The lock: the statements of the threads of one local push with cleanup,
\* one by one. A statement takes the lock, gives it back, reads or writes a
\* part of the job state, is inside an external call, or starts a thread.
\* -------------------------------------------------------------------------
\* with self._lock: <body>
WithLock(body) == << [op |-> "acquire", what |-> ""] >> \o body
                  \o << [op |-> "release", what |-> ""] >>

\* _append_log of a job that is in the store
AppendLogSteps ==
    WithLock(<< [op |-> "read", what |-> "membership"],
                [op |-> "write", what |-> "logs"],
                [op |-> "write", what |-> "updated_at"] >>)

\* _update_job_status of a job that is in the store
UpdateJobStatusSteps ==
    WithLock(<< [op |-> "read", what |-> "membership"],
                [op |-> "write", what |-> "status"],
                [op |-> "write", what |-> "error"],
                [op |-> "write", what |-> "updated_at"] >>)

\* the statements of the threads: create_local_push_job from its _insert_job
\* on; _run_commands_job of one command that writes a line and exits 0;
\* _wait_then_cleanup_registry_source_tags, whose get_job finds the job
\* running, which sleeps, finds it successful and deletes one tag
Program ==
    [creator |-> WithLock(<< [op |-> "write", what |-> "membership"] >>)
                 \o AppendLogSteps
                 \o << [op |-> "start", what |-> "runner"] >>
                 \o AppendLogSteps
                 \o << [op |-> "start", what |-> "cleanup"] >>,
     runner |-> AppendLogSteps
                \o << [op |-> "external", what |-> "subprocess"] >>
                \o AppendLogSteps
                \o << [op |-> "external", what |-> "subprocess"] >>
                \o UpdateJobStatusSteps \o AppendLogSteps,
     cleanup |-> WithLock(<< [op |-> "read", what |-> "membership"] >>)
                 \o << [op |-> "read", what |-> "status"],
                       [op |-> "external", what |-> "sleep"] >>
                 \o WithLock(<< [op |-> "read", what |-> "membership"] >>)
                 \o << [op |-> "read", what |-> "status"],
                       [op |-> "read", what |-> "status"],
                       [op |-> "external", what |-> "http"],
                       [op |-> "external", what |-> "http"] >>
                 \o AppendLogSteps]

\* the statement that the thread t executes next
Statement(t) ==
    IF t \in sync.running /\ sync.at[t] <= Len(Program[t])
    THEN Program[t][sync.at[t]]
    ELSE [op |-> "end", what |-> ""]

\* self._lock.__enter__: the thread waits until the lock is free
Acquire(t) ==
    /\ Statement(t).op = "acquire"
    /\ sync.lock = ""
    /\ sync' = [sync EXCEPT !.lock = t, !.at[t] = @ + 1]
    /\ UNCHANGED <<observed, registry_push_host, registry_api_url, retention,
                   host_machine, jobs, objects, call, runner, cleaner, others, history>>

\* self._lock.__exit__
Release(t) ==
    /\ Statement(t).op = "release"
    /\ sync' = [sync EXCEPT !.lock = "", !.at[t] = @ + 1]
    /\ UNCHANGED <<observed, registry_push_host, registry_api_url, retention,
                   host_machine, jobs, objects, call, runner, cleaner, others, history>>

\* a read or a write of job state, an external call, or thread.start()
Proceed(t) ==
    /\ Statement(t).op \in {"read", "write", "external", "start"}
    /\ sync' = [sync EXCEPT !.at[t] = @ + 1,
                            !.running = IF Statement(t).op = "start"
                                        THEN @ \cup {Statement(t).what} ELSE @]
    /\ UNCHANGED <<observed, registry_push_host, registry_api_url, retention,
                   host_machine, jobs, objects, call, runner, cleaner, others, history>>

\* -------------------------------------------------------------------------
\* Specifications
\* -------------------------------------------------------------------------
CreatorStep(c) ==
    \/ CreateJob(c)
    \/ CreateLocalPushJob(c)
    \/ CreateRemotePrefixJob(c)
    \/ StartJob(c)
    \/ CreatorLog(c)
    \/ StartCleanup(c)

RunnerStep(c) ==
    \/ RunCommand(c)
    \/ PopenFails(c)
    \/ ReadLine(c)
    \/ Wait(c)
    \/ Finish(c)
    \/ DoneLog(c)
    \/ Abort(c)

CleanerStep(c) ==
    \/ Poll(c)
    \/ SkipLog(c)
    \/ Head_(c)
    \/ Get(c)
    \/ Delete(c)
    \/ CleanupFailedLog(c)
    \/ CleanupFailedStatus(c)

\* the threads of the followed calls, in any interleaving
Next == \E c \in Calls : CreatorStep(c) \/ RunnerStep(c) \/ CleanerStep(c)

Spec == Init /\ [][Next]_vars

\* the same under fair scheduling: a create call that has inserted its job
\* goes on to its end, a thread that can take a step eventually takes one,
\* and a command that was started eventually ends
SpecLive ==
    /\ Init
    /\ [][Next]_vars
    /\ \A c \in Calls :
          /\ WF_vars(StartJob(c) \/ CreatorLog(c) \/ StartCleanup(c))
          /\ WF_vars(RunnerStep(c))
          /\ WF_vars(CleanerStep(c))

\* a local push with registry cleanup, all its threads in any interleaving,
\* and create_job calls of other requests that fill the store
NextEvict ==
    \/ \E c \in Calls :
          \/ CreateLocalPushJob(c)
          \/ StartJob(c)
          \/ CreatorLog(c)
          \/ StartCleanup(c)
          \/ RunnerStep(c)
          \/ CleanerStep(c)
    \/ OtherCreateJobs

SpecEvict == Init /\ [][NextEvict]_vars

\* the same under fair scheduling of the threads of the local push
SpecEvictLive ==
    /\ Init
    /\ [][NextEvict]_vars
    /\ \A c \in Calls :
          /\ WF_vars(StartJob(c) \/ CreatorLog(c) \/ StartCleanup(c))
          /\ WF_vars(RunnerStep(c))
          /\ WF_vars(CleanerStep(c))

\* the create calls on all the requests, alone: the worker threads they
\* start are not scheduled
NextCreate ==
    \E c \in Calls :
        \/ CreateJobOf(c, AnyMirrorRequests)
        \/ CreateLocalPushJobOf(c, AnyLocalPushRequests)
        \/ CreateRemotePrefixJobOf(c, AnyRemotePrefixRequests, AnyTagResponses)
        \/ StartJob(c)
        \/ CreatorLog(c)
        \/ StartCleanup(c)

SpecCreate == Init /\ [][NextCreate]_vars

\* the store under many create_job calls: one followed through its whole
\* life, the others inserting one by one
NextStore ==
    \/ \E c \in Calls : CreateJob(c) \/ StartJob(c) \/ RunnerStep(c)
    \/ OtherCreateJob

SpecStore == Init /\ [][NextStore]_vars

\* the store under create_job calls that insert one by one, and its listing
NextList == OtherCreateJob \/ ListJobsCall

SpecList == Init /\ [][NextList]_vars

\* the calls of the reference parser
NextParser == ApplyPrefixCall \/ ApplyPrefixAgain \/ SplitSourceImageCall

SpecParser == Init /\ [][NextParser]_vars

\* a local push with registry cleanup whose commands write more lines than
\* a job keeps; the creating call is scheduled between the runner's
\* commands and at the end of a command's output, not between two lines
NextLogs ==
    \E c \in Calls :
        \/ CreateLocalPushJob(c)
        \/ StartJob(c)
        \/ (runner[c].lines \in {0, MaxLongOutput} /\ CreatorLog(c))
        \/ (runner[c].lines \in {0, MaxLongOutput} /\ StartCleanup(c))
        \/ RunCommand(c)
        \/ (runner[c].lines = 0 /\ PopenFails(c))
        \/ ReadNumberedLine(c)
        \/ (runner[c].lines = MaxLongOutput /\ Wait(c))
        \/ Finish(c)
        \/ DoneLog(c)
        \/ Abort(c)
        \/ CleanerStep(c)

SpecLogs == Init /\ [][NextLogs]_vars

\* a local push with several cleanup targets, the runner thread being
\* scheduled for the first time after the creating call has returned
NextCleanup ==
    \E c \in Calls :
        \/ CreateLocalPushJobOf(c, ManyTargetRequests)
        \/ StartJob(c)
        \/ CreatorLog(c)
        \/ StartCleanup(c)
        \/ (call[c].pc = "returned" /\ RunnerStep(c))
        \/ CleanerStep(c)

SpecCleanup == Init /\ [][NextCleanup]_vars

\* a repository-delete job from its creation to the end of its runner
NextDelete ==
    \E c \in Calls :
        \/ CreateRepositoryDeleteJob(c)
        \/ StartJob(c)
        \/ RunCommand(c)
        \/ PopenFails(c)
        \/ ReadLine(c)
        \/ Wait(c)
        \/ Finish(c)
        \/ DoneLog(c)

SpecDelete == Init /\ [][NextDelete]_vars

\* the tag listings of the registry client and of the manager
NextRegistry == ListTagsCall \/ ListRegistryTagsCall

SpecRegistry == Init /\ [][NextRegistry]_vars

\* the mirror jobs of several create_job calls, whose runner threads run at
\* the same time
NextJobs == \E c \in 1..MaxJobs : CreateJob(c) \/ StartJob(c) \/ RunnerStep(c)

SpecJobs == InitOf(1..MaxJobs) /\ [][NextJobs]_vars

\* a local push whose creating call writes its lines while its runner writes
\* the "[run]" lines and the numbered output lines of the commands, and the
\* mirror jobs of other calls that run at the same time
NextOrder ==
    \/ \E c \in {1} :
          \/ CreateLocalPushJob(c)
          \/ CreatorLog(c)
          \/ PopenFails(c)
          \/ (runner[c].lines < MaxOrdered /\ ReadNumberedLine(c))
    \/ \E c \in 2..MaxJobs : CreateJob(c)
    \/ \E c \in 1..MaxJobs :
          \/ StartJob(c)
          \/ RunCommand(c)
          \/ Wait(c)
          \/ Finish(c)
          \/ DoneLog(c)
          \/ Abort(c)

SpecOrder == InitOf(1..MaxJobs) /\ [][NextOrder]_vars

\* the jobs of the three create calls, with and without registry cleanup,
\* all their threads in any interleaving
NextEither ==
    \E c \in Calls :
        \/ CreateJob(c)
        \/ CreateLocalPushJobOf(c, EitherLocalPushRequests)
        \/ CreateRemotePrefixJobOf(c, EitherRemotePrefixRequests, TagResponses)
        \/ StartJob(c)
        \/ CreatorLog(c)
        \/ StartCleanup(c)
        \/ RunnerStep(c)
        \/ CleanerStep(c)

SpecEither == Init /\ [][NextEither]_vars

\* the threads of one job, statement by statement, under the lock
NextLock == \E t \in DOMAIN Program : Acquire(t) \/ Release(t) \/ Proceed(t)

SpecLock == Init /\ [][NextLock]_vars

\* -------------------------------------------------------------------------
\* Properties
\* -------------------------------------------------------------------------
\* the job of the call c, once the call has inserted it
Made(c) == call[c].job_id \in DOMAIN objects

Job(c) == objects[call[c].job_id]

\* the job of the call c is in the store
Stored(c) == Made(c) /\ InStore(call[c].job_id)

Last(s) == s[Len(s)]

\* the status writes of the threads of the call c: who wrote what, in order
Writes(c) ==
    [i \in 1..Len(history[c].writes) |->
        <<history[c].writes[i].by, history[c].writes[i].status>>]

\* those of one of the threads
WritesBy(c, by) == SelectSeq(Writes(c), LAMBDA w : w[1] = by)

\* every thread of the call c has ended
Quiet(c) ==
    /\ call[c].pc = "returned"
    /\ runner[c].pc = "done"
    /\ cleaner[c].pc \in {"idle", "done"}

\* the error of a job that the cleanup thread has failed
IsCleanupError(error) ==
    error.some /\ StartsWith(error.text, <<"Registry cleanup failed: ">>)

\* the commands of the call c are issued in the order of the plan
InPlanOrder(c) ==
    /\ \A i \in 1..Len(history[c].started) : history[c].started[i] = i
    /\ Len(history[c].exits) <= Len(history[c].started)
    /\ Len(history[c].started) <= Len(history[c].exits) + 1

\* the number of failures among the first n exits
RECURSIVE FailuresIn(_, _)
FailuresIn(exits, n) ==
    IF n = 0 THEN 0
    ELSE FailuresIn(exits, n - 1) + (IF exits[n] # 0 THEN 1 ELSE 0)

\* the error texts as the claims quote them
CommandFailed(exit_code, argv) ==
    <<"Command failed (", ToString(exit_code), "): ">> \o Join(argv, <<" ">>)

CommandsFailed(n) == <<ToString(n), " command(s) failed">>

\* C1 as stated: in every step, a job whose status is success or failed
\* keeps its status.
C1_TerminalStatusNeverChanges ==
    [][\A id \in DOMAIN objects :
          objects[id].status \in {"success", "failed"}
              => objects'[id].status = objects[id].status]_vars

\* C1, amended: in every step, a failed job stays failed; a job leaves
\* running only by the one status write of its runner thread; a job leaves
\* success only to become failed, by the status write of its cleanup thread
\* after a registry cleanup failure; and the runner thread writes the status
\* at most once.
C1_StatusTransitions ==
    [][\A c \in Calls : Made(c) =>
          LET id == call[c].job_id
          IN /\ objects[id].status = "failed" => objects'[id].status = "failed"
             /\ (objects[id].status = "running" /\ objects'[id].status # "running")
                   => /\ runner[c].pc \in {"loop", "abort"}
                      /\ runner'[c].pc \in {"finished", "done"}
                      /\ history[c].writes = <<>>
             /\ (objects[id].status = "success" /\ objects'[id].status # "success")
                   => /\ objects'[id].status = "failed"
                      /\ IsCleanupError(objects'[id].error)
                      /\ cleaner[c].pc = "fail_status"
                      /\ cleaner'[c].pc = "done"
             /\ Len(SelectSeq(history'[c].writes, LAMBDA w : w.by = "runner")) <= 1
             /\ Len(history'[c].writes) <= 2]_vars

\* C1, the case: a job that its runner ended success and its cleanup thread
\* then failed.
C1_Downgraded ==
    \E c \in Calls :
        /\ Stored(c)
        /\ Quiet(c)
        /\ Writes(c) = << <<"runner", "success">>, <<"cleanup", "failed">> >>
        /\ Job(c).status = "failed"

\* C2: for a mirror or local-push job the commands are issued in plan order,
\* no command is issued after the first one that fails, and once the runner
\* has ended after a non-zero exit the job is failed with the error
\* "Command failed (<exit code>): <joined argv>" of that command.
C2_FailFast ==
    \A c \in Calls :
        (Made(c) /\ call[c].kind \in {"create_job", "create_local_push_job"}) =>
            /\ InPlanOrder(c)
            /\ \A i \in 1..Len(history[c].exits) :
                  history[c].exits[i] # 0
                      => i = Len(history[c].exits) /\ i = Len(history[c].started)
            /\ (/\ runner[c].pc = "done"
                /\ Stored(c)
                /\ history[c].exits # <<>>
                /\ Last(history[c].exits) > 0)
                  => /\ Job(c).status = "failed"
                     /\ Job(c).error =
                           Some(CommandFailed(Last(history[c].exits),
                                              Commands(c)[Len(history[c].exits)]))

\* C2, the case: a mirror job whose second command of three exits 1; the
\* third is never issued.
C2_SecondOfThreeFails ==
    \E c \in Calls :
        /\ Stored(c)
        /\ call[c].kind = "create_job"
        /\ Len(Commands(c)) = 3
        /\ history[c].exits = <<0, 1>>
        /\ history[c].started = <<1, 2>>
        /\ runner[c].pc = "done"
        /\ Job(c).status = "failed"

\* C3 as stated: a remote-prefix job whose threads have all ended has had
\* every command attempted, is failed exactly when a command failed, then
\* with the error "<n> command(s) failed", and is success otherwise.
C3_FailedIffCommandsFailed ==
    \A c \in Calls :
        (Stored(c) /\ call[c].kind = "create_remote_prefix_job" /\ Quiet(c)) =>
            /\ Len(history[c].exits) = Len(Commands(c))
            /\ Job(c).status = "failed" <=> runner[c].failures > 0
            /\ Job(c).status = "success" <=> runner[c].failures = 0
            /\ runner[c].failures > 0
                  => Job(c).error = Some(CommandsFailed(runner[c].failures))

\* C3, amended: for a remote-prefix job the commands are issued in plan
\* order and every one of them is attempted whatever the earlier ones did;
\* the runner counts the failures exactly and ends the job failed with
\* "<n> command(s) failed" when n > 0 failed and success otherwise, logging
\* one "[run]" line per command; that status is final unless the cleanup of
\* the source tags fails, which turns a success into failed with a
\* "Registry cleanup failed: ..." error.
C3_ContinueOnError ==
    \A c \in Calls :
        (Made(c) /\ call[c].kind = "create_remote_prefix_job") =>
            /\ InPlanOrder(c)
            /\ runner[c].failures = FailuresIn(history[c].exits, Len(history[c].exits))
            /\ runner[c].pc \in {"idle", "loop", "popen", "finished", "done"}
            /\ runner[c].pc \in {"finished", "done"} =>
                  /\ Len(history[c].exits) = Len(Commands(c))
                  /\ WritesBy(c, "runner") =
                        << <<"runner", IF runner[c].failures > 0 THEN "failed"
                                       ELSE "success">> >>
                  /\ Stored(c) =>
                        /\ Cardinality({i \in 1..Len(Job(c).logs) :
                                           Job(c).logs[i][3] = "[run]"})
                              = Len(Commands(c))
                        /\ IF WritesBy(c, "cleanup") = <<>>
                           THEN /\ runner[c].failures > 0 =>
                                      /\ Job(c).status = "failed"
                                      /\ Job(c).error =
                                            Some(CommandsFailed(runner[c].failures))
                                /\ runner[c].failures = 0 =>
                                      /\ Job(c).status = "success"
                                      /\ Job(c).error = None
                           ELSE /\ runner[c].failures = 0
                                /\ Job(c).status = "failed"
                                /\ IsCleanupError(Job(c).error)

\* C3, the case: a remote-prefix job of three commands whose second fails
\* and whose third runs; the job ends failed with "1 command(s) failed".
C3_ThirdRunsAfterFailure ==
    \E c \in Calls :
        /\ Stored(c)
        /\ call[c].kind = "create_remote_prefix_job"
        /\ Quiet(c)
        /\ history[c].exits = <<0, 1, 0>>
        /\ Job(c).status = "failed"
        /\ Job(c).error = Some(CommandsFailed(1))

\* C4 as stated: a job that is failed when its threads have all ended has
\* had no DELETE request issued for it.
C4_FailedJobNeverDeleted ==
    \A c \in Calls :
        (Stored(c) /\ Quiet(c) /\ Job(c).status = "failed") =>
            \A i \in 1..Len(history[c].requests) :
                history[c].requests[i].method # "DELETE"

\* C4, amended: a job that its runner ended failed has no registry request
\* issued for it, whether cleanup was requested or not; a job that is failed
\* after registry requests were issued for it was ended success by its
\* runner and was failed by the cleanup itself.
C4_NoCleanupAfterRunnerFailure ==
    \A c \in Calls :
        Made(c) =>
            /\ WritesBy(c, "runner") = << <<"runner", "failed">> >>
                  => history[c].requests = <<>>
            /\ (Stored(c) /\ Job(c).status = "failed" /\ history[c].requests # <<>>)
                  => /\ Writes(c) = << <<"runner", "success">>,
                                        <<"cleanup", "failed">> >>
                     /\ IsCleanupError(Job(c).error)

\* C4, the case: a job with cleanup requested that its runner ended failed;
\* the cleanup thread has ended without a request.
C4_CleanupSkipped ==
    \E c \in Calls :
        /\ Stored(c)
        /\ Quiet(c)
        /\ call[c].plan.cleanup
        /\ history[c].cleaners = 1
        /\ registry_api_url # <<>>
        /\ WritesBy(c, "runner") = << <<"runner", "failed">> >>
        /\ history[c].requests = <<>>
        /\ Job(c).status = "failed"

\* C5: every registry request of the cleanup thread is issued while the job
\* is success, after every command of the plan has ended and after the
\* runner has written success.
C5_CleanupAfterSuccess ==
    \A c \in Calls :
        Made(c) =>
            /\ \A i \in 1..Len(history[c].requests) :
                  /\ history[c].requests[i].job_status = "success"
                  /\ history[c].requests[i].commands_done = Len(Commands(c))
            /\ history[c].requests # <<>> =>
                  /\ runner[c].pc \in {"finished", "done"}
                  /\ runner[c].failures = 0
                  /\ WritesBy(c, "runner") = << <<"runner", "success">> >>
            /\ cleaner[c].pc \in {"head", "get", "delete"} => Job(c).status = "success"

\* C5, the case: a DELETE request has been issued for a job.
C5_DeleteIssued ==
    \E c \in Calls :
        /\ Stored(c)
        /\ history[c].requests # <<>>
        /\ Last(history[c].requests).method = "DELETE"
        /\ Last(history[c].requests).response = 202
        /\ Job(c).status = "success"

\* a registry answer that is a failure other than a 404: a transport error,
\* an error status, or a fallback GET without a digest
FailedRequest(r) ==
    \/ r.response = 0
    \/ r.response >= 400 /\ r.response # 404
    \/ r.method = "GET" /\ r.response < 400 /\ r.digest = <<>>

\* C6: a registry failure other than a 404 is the last request of the
\* cleanup: no later target is looked up or deleted; the cleanup thread
\* goes to its except clause, and once it has ended the job is failed with
\* an error that begins "Registry cleanup failed: ".
C6_FirstFailureAborts ==
    \A c \in Calls :
        /\ \A i \in 1..Len(history[c].requests) :
              FailedRequest(history[c].requests[i])
                  => /\ i = Len(history[c].requests)
                     /\ history[c].requests[i].job_status = "success"
                     /\ cleaner[c].pc \in {"fail_log", "fail_status", "done"}
        /\ (/\ history[c].requests # <<>>
            /\ FailedRequest(Last(history[c].requests))
            /\ cleaner[c].pc = "done"
            /\ Stored(c))
              => /\ Job(c).status = "failed"
                 /\ IsCleanupError(Job(c).error)

\* C6, the case: the cleanup of a job with two targets fails at the first
\* one; the second is never looked up and the job has become failed.
C6_SecondTargetUntouched ==
    \E c \in Calls :
        /\ Stored(c)
        /\ Len(cleaner[c].targets) = 2
        /\ cleaner[c].pc = "done"
        /\ history[c].requests # <<>>
        /\ FailedRequest(Last(history[c].requests))
        /\ \A i \in 1..Len(history[c].requests) :
              history[c].requests[i].target = cleaner[c].targets[1]
        /\ Job(c).status = "failed"

\* C7 as stated: a 404 answer to HEAD, to the fallback GET or to DELETE
\* does not abort the cleanup, and a cleanup whose last answer is a 404
\* leaves the job success.
C7_NotFoundIsAlreadyGone ==
    \A c \in Calls :
        (history[c].requests # <<>> /\ Last(history[c].requests).response = 404) =>
            /\ cleaner[c].pc \notin {"fail_log", "fail_status"}
            /\ (cleaner[c].pc = "done" /\ Stored(c)) => Job(c).status = "success"

\* the calls that have inserted a job
Inserted == {c \in Calls : call[c].pc \in {"inserted", "started", "returned"}}

\* C8: a create call that has raised has inserted no job, written no log and
\* started no thread; a create call that has returned has inserted exactly
\* one job, which is in the store with status running as long as no thread
\* has run, and has started exactly one runner thread for it; the store and
\* the job objects hold the jobs of the calls that inserted, and no others.
C8_AllOrNothing ==
    /\ \A c \in Calls :
          /\ call[c].pc = "raised" =>
                /\ ~call[c].plan.ok
                /\ call[c].job_id = 0
                /\ history[c] = NoHistory
                /\ runner[c] = IdleRunner
                /\ cleaner[c] = IdleCleaner
          /\ call[c].pc = "returned" =>
                /\ history[c].inserts = 1
                /\ history[c].runners = 1
                /\ history[c].cleaners = (IF call[c].plan.cleanup THEN 1 ELSE 0)
                /\ Made(c)
                /\ runner[c].pc # "idle"
                /\ (Stored(c) /\ runner[c].pc = "loop" /\ history[c].started = <<>>)
                      => /\ Job(c).status = "running"
                         /\ Job(c).logs # <<>>
    /\ DOMAIN objects = {call[c].job_id : c \in Inserted}
    /\ others = 0 => Keys(jobs) = DOMAIN objects

\* C8, the case: create_remote_prefix_job has raised because the registry
\* failed while the tags were listed.
C8_RaisedWhileListing ==
    \E c \in Calls :
        /\ call[c].pc = "raised"
        /\ call[c].kind = "create_remote_prefix_job"
        /\ call[c].plan.error = "list tags failed"
        /\ jobs = <<>>

\* the cases in which C9 has a request rejected
NoItem(items) == \A i \in 1..Len(items) : Strip(items[i]) = <<>>

Mode(text, default) ==
    IF Lower(Strip(text)) = <<>> THEN default ELSE Lower(Strip(text))

EmptyPrefix(req, default) ==
    /\ Mode(req.prefix_mode, default) \in {<<"add">>, <<"remove">>}
    /\ StripChar(Strip(req.prefix_value), "/") = <<>>

EmptyHost(req) ==
    RStripChar(Strip(IF req.target_registry_host = <<>> THEN registry_push_host
                     ELSE req.target_registry_host), "/") = <<>>

MustReject(kind, req) ==
    IF kind = "create_local_push_job"
    THEN \/ NoItem(req.image_refs)
         \/ Mode(req.prefix_mode, <<"none">>) \notin {<<"add">>, <<"remove">>, <<"none">>}
         \/ Mode(req.arch_mode, <<"auto">>) \notin {<<"auto">>, <<"custom">>, <<"none">>}
         \/ EmptyPrefix(req, <<"none">>)
         \/ EmptyHost(req)
    ELSE \/ NoItem(req.repositories)
         \/ Mode(req.prefix_mode, <<"add">>) \notin {<<"add">>, <<"remove">>}
         \/ EmptyPrefix(req, <<"add">>)
         \/ EmptyHost(req)

\* C9 as stated: create_local_push_job and create_remote_prefix_job raise,
\* and so insert no job and start no thread, on a request with no non-blank
\* item, with an unsupported prefix_mode or arch_mode, with an empty prefix
\* value under the prefix mode add or remove, or with an empty resulting
\* registry host.
C9_RejectsBadRequests ==
    \A c \in Calls :
        (/\ call[c].pc # "idle"
         /\ call[c].kind \in {"create_local_push_job", "create_remote_prefix_job"}
         /\ MustReject(call[c].kind, call[c].req))
            => /\ call[c].pc = "raised"
               /\ history[c] = NoHistory

\* C10: the store holds at most retention jobs, the retention being the
\* configured value or 20 when that is less; after n inserts it holds the
\* min(n, retention) most recently inserted jobs, in insertion order.
C10_Retention ==
    LET n == Cardinality(DOMAIN objects) + others
        kept == Min(n, retention)
    IN /\ \E m \in Constructions :
             retention = (IF m.retention < 20 THEN 20 ELSE m.retention)
       /\ retention >= 20
       /\ Len(jobs) <= retention
       /\ Len(jobs) = kept
       /\ \A i \in 1..kept : jobs[i] = n - kept + i

\* C10, the case: two more jobs than the store retains have been inserted.
C10_TwoEvicted ==
    /\ Cardinality(DOMAIN objects) + others = retention + 2
    /\ Len(jobs) = retention
    /\ jobs[1] = 3

\* C11: a job leaves the store only by the retention eviction of an insert,
\* and the evicted jobs are the oldest by insertion order whatever their
\* status. In every step of every thread the store keeps a suffix of its
\* keys in their order, followed by the keys the step inserted; when keys
\* were dropped, keys were inserted and the store is exactly full.
C11_RemovedOnlyByEviction ==
    [][\E k \in 0..Len(jobs) :
          /\ Len(jobs') >= Len(jobs) - k
          /\ \A i \in 1..(Len(jobs) - k) : jobs'[i] = jobs[k + i]
          /\ \A i \in (Len(jobs) - k + 1)..Len(jobs') : jobs'[i] \notin Keys(jobs)
          /\ k > 0 => (Len(jobs') > Len(jobs) - k /\ Len(jobs') = retention)]_vars

\* C11 (witness): the job of the followed call was evicted while running
C11_RunningEvicted ==
    \E c \in Calls :
        /\ Made(c)
        /\ ~Stored(c)
        /\ Job(c).status = "running"
        /\ others >= retention

\* C12: list_jobs(limit) returns at most limit entries, and they are the
\* most recently inserted jobs of the store, most recent first: entry i of
\* the result is the i-th job from the end of the store as it was when
\* list_jobs was called.
C12_ListJobsMostRecentFirst ==
    [][observed' # observed /\ observed'[1].fn = "list_jobs" =>
          /\ Len(observed'[1].out) <= observed'[1].limit
          /\ Len(observed'[1].out) <= Len(jobs)
          /\ \A i \in 1..Len(observed'[1].out) :
                observed'[1].out[i] = jobs[Len(jobs) + 1 - i]]_vars

\* C12 (witness): a listing cut at its limit, of a store that evicted jobs
C12_ListingCut ==
    /\ observed # <<>>
    /\ observed[1].fn = "list_jobs"
    /\ observed[1].limit = 2
    /\ Len(jobs) = retention
    /\ others > retention
    /\ observed[1].out = <<jobs[Len(jobs)], jobs[Len(jobs) - 1]>>

\* C13: a job's logs never hold more than 300 entries, and every step of
\* every thread either leaves them alone or appends one entry at the end,
\* dropping only the oldest entry when there were 300 already: the entries
\* that stay keep their order.
C13_LogsCapped ==
    [][/\ \A id \in DOMAIN objects' : Len(objects'[id].logs) <= 300
       /\ \A id \in DOMAIN objects :
             \/ objects'[id].logs = objects[id].logs
             \/ /\ Len(objects'[id].logs) = Min(Len(objects[id].logs) + 1, 300)
                /\ \A i \in 1..(Len(objects'[id].logs) - 1) :
                      objects'[id].logs[i] =
                          objects[id].logs[Len(objects[id].logs) + 1
                                           - Len(objects'[id].logs) + i]]_vars

\* C13 (witness): a job with 300 entries of which the oldest were dropped,
\* the commands' output, the creating call's mapping and the cleanup
\* coordinator's line being among those kept
C13_OldestDropped ==
    \E c \in Calls :
        /\ Made(c)
        /\ Len(Job(c).logs) = 300
        /\ Job(c).logs[1][3] = "line"
        /\ \E i \in 1..300 : Job(c).logs[i][3] = "[map]"
        /\ Job(c).logs[300][3] = "[cleanup]"

\* C14: under fair scheduling, with commands that end, every job that was
\* created and is in the store eventually has status success or failed,
\* also when a command cannot be spawned.
C14_EventuallyTerminal ==
    \A c \in Calls :
        (Made(c) /\ Stored(c))
            ~> (Made(c) /\ Job(c).status \in {"success", "failed"})

\* C14 (witness): a job whose only started command could not be spawned has
\* left running
C14_SpawnFailureEnded ==
    \E c \in Calls :
        /\ Made(c)
        /\ history[c].exits = <<-1>>
        /\ runner[c].pc = "done"
        /\ Job(c).status = "failed"

\* the mirror jobs that were created
Mirrors == {c \in Inserted : call[c].kind = "create_job"}

\* the plan [pull S, tag S target, push target]
PullTagPush(S, target) ==
    << << <<"docker">>, <<"pull">>, S >>,
       << <<"docker">>, <<"tag">>, S, target >>,
       << <<"docker">>, <<"push">>, target >> >>

\* <push_host>/<repo>:<tag>
TargetOf(repo, tag) == registry_push_host \o <<"/">> \o repo \o <<":">> \o tag

\* the override when it is not empty, the parsed part otherwise
Override(override, parsed) == IF override # <<>> THEN override ELSE parsed

\* C15 as stated: the plan of a mirror job is [pull S, tag S target, push
\* target] for the source reference S as it was given, and the target is
\* <push_host>/<repo>:<tag> of the parsed source, a non-blank override
\* replacing its part as it was given.
C15_PlanOfSourceAsGiven ==
    \A c \in Mirrors :
        /\ call[c].plan.commands =
              PullTagPush(call[c].req.source_image, Job(c).target_image)
        /\ Job(c).target_image =
              TargetOf(IF Strip(call[c].req.target_repository) # <<>>
                       THEN call[c].req.target_repository
                       ELSE SplitSourceImage(call[c].req.source_image).repo,
                       IF Strip(call[c].req.target_tag) # <<>>
                       THEN call[c].req.target_tag
                       ELSE SplitSourceImage(call[c].req.source_image).tag)

\* C15 (amended): with S the source reference without its surrounding
\* whitespace, the plan of a mirror job is exactly [pull S, tag S target,
\* push target], its source is S, and its target is <push_host>/<repo>:<tag>
\* where repo and tag are those of the parsed source, each replaced by its
\* override, without surrounding whitespace, when that is not blank.
C15_MirrorPlan ==
    \A c \in Mirrors :
        /\ call[c].plan.commands =
              PullTagPush(Strip(call[c].req.source_image), Job(c).target_image)
        /\ Job(c).source_image = Strip(call[c].req.source_image)
        /\ Job(c).target_image =
              TargetOf(Override(Strip(call[c].req.target_repository),
                                SplitSourceImage(call[c].req.source_image).repo),
                       Override(Strip(call[c].req.target_tag),
                                SplitSourceImage(call[c].req.source_image).tag))
        /\ Job(c).job_type = "mirror"
        /\ Job(c).total_items = 1

\* C15 (witness): the mirror job of " nginx:1.27 " with the overrides
\* " mirror/nginx" and "stable "
C15_PaddedWithOverrides ==
    \E c \in Mirrors :
        /\ call[c].req.source_image = <<" ", "nginx", ":", "1", ".", "27", " ">>
        /\ registry_push_host = <<"registry", ".", "local", ":", "5000">>
        /\ Job(c).target_image = <<"registry", ".", "local", ":", "5000", "/",
                                   "mirror", "/", "nginx", ":", "stable">>
        /\ call[c].plan.commands[1] =
              << <<"docker">>, <<"pull">>, <<"nginx", ":", "1", ".", "27">> >>

\* the local-push jobs that were created, and the references of one
LocalPushes == {c \in Inserted : call[c].kind = "create_local_push_job"}

Refs(c) == StripNonBlank(call[c].req.image_refs)

\* the arch label of a local-push request: none for arch_mode none
LabelOf(req) ==
    IF Lower(Strip(req.arch_mode)) = <<"none">> THEN <<>>
    ELSE IF Lower(Strip(req.arch_mode)) = <<"custom">> THEN Lower(Strip(req.arch_value))
    ELSE DetectArchLabel(host_machine)

\* the tag with "-<label>" appended unless it ends with it already
Suffixed(tag, label) ==
    IF label = <<>> \/ EndsWith(tag, <<"-">> \o label) THEN tag
    ELSE tag \o <<"-">> \o label

\* <host>/<apply_prefix(repo)>:<tag'> of one reference
TargetRefOf(req, ref) ==
    RStripChar(Strip(IF req.target_registry_host # <<>>
                     THEN req.target_registry_host ELSE registry_push_host), "/")
    \o <<"/">>
    \o ApplyPrefix(SplitSourceImage(ref).repo,
                   IF Lower(Strip(req.prefix_mode)) # <<>>
                   THEN Lower(Strip(req.prefix_mode)) ELSE <<"none">>,
                   req.prefix_value).repo
    \o <<":">>
    \o Suffixed(SplitSourceImage(ref).tag, LabelOf(req))

\* the number of commands of one reference
PerRef(req) == IF req.cleanup_local_tag THEN 3 ELSE 2

\* C16: the plan of a local-push job holds, for each of its references in
\* input order, tag <ref> <target> then push <target> then, only with
\* cleanup_local_tag, image rm <ref>, and nothing else, where <target> is
\* <host>/<apply_prefix(repo)>:<tag'> and tag' is the tag with "-<arch
\* label>" appended unless it ends with that suffix already (no suffix for
\* arch_mode none).
C16_LocalPushPlan ==
    \A c \in LocalPushes :
        /\ Len(call[c].plan.commands) = PerRef(call[c].req) * Len(Refs(c))
        /\ \A i \in 1..Len(Refs(c)) :
              /\ call[c].plan.commands[PerRef(call[c].req) * (i - 1) + 1] =
                    << <<"docker">>, <<"tag">>, Refs(c)[i],
                       TargetRefOf(call[c].req, Refs(c)[i]) >>
              /\ call[c].plan.commands[PerRef(call[c].req) * (i - 1) + 2] =
                    << <<"docker">>, <<"push">>,
                       TargetRefOf(call[c].req, Refs(c)[i]) >>
              /\ call[c].req.cleanup_local_tag =>
                    call[c].plan.commands[PerRef(call[c].req) * (i - 1) + 3] =
                        << <<"docker">>, <<"image">>, <<"rm">>, Refs(c)[i] >>

\* C16 (witness): app:1.0-x86 and web with prefix add x86, custom arch x86
\* and cleanup_local_tag: the first target keeps its tag, the second gets
\* the suffix
C16_SuffixOnce ==
    \E c \in LocalPushes :
        /\ call[c].req.cleanup_local_tag
        /\ Len(call[c].plan.commands) = 6
        /\ call[c].plan.commands[2][3] =
              <<"registry", ".", "local", ":", "5000", "/", "x86", "/", "app", ":",
                "1", ".", "0", "-", "x86">>
        /\ call[c].plan.commands[5][3] =
              <<"registry", ".", "local", ":", "5000", "/", "x86", "/", "web", ":",
                "latest", "-", "x86">>

\* the calls of _apply_prefix that were observed: one call, and a call
\* followed by a second call on what the first returned
Applied == Len(observed) >= 1 /\ observed[1].fn = "_apply_prefix"

AppliedTwice(first_mode, second_mode) ==
    /\ Len(observed) = 2
    /\ observed[1].fn = "_apply_prefix"
    /\ observed[1].args[2] = first_mode
    /\ observed[2].args[2] = second_mode

\* C17: prefix add is idempotent: apply_prefix(apply_prefix(r, add, p), add,
\* p) = apply_prefix(r, add, p) for every repository r and prefix p.
C17_AddIdempotent ==
    AppliedTwice(<<"add">>, <<"add">>) => observed[2].out = observed[1].out

\* without the "/" at both ends
Bare(text) == StripChar(text, "/")

\* C18 as stated: apply_prefix(apply_prefix(r, add, p), remove, p) = r for
\* every repository r and prefix p such that r does not start with "p/".
C18_RemoveUndoesAdd ==
    (/\ AppliedTwice(<<"add">>, <<"remove">>)
     /\ ~StartsWith(observed[1].args[1], observed[1].args[3] \o <<"/">>))
        => (observed[2].out.ok /\ observed[2].out.repo = observed[1].args[1])

\* C18 (amended): with r and p taken without the "/" at their ends, remove
\* after add returns r when r is not p and does not start with "p/", and
\* the empty repository when r is p.
C18_RemoveUndoesAddBare ==
    AppliedTwice(<<"add">>, <<"remove">>) =>
        /\ observed[2].out.ok
        /\ (/\ Bare(observed[1].args[1]) # Bare(observed[1].args[3])
            /\ ~StartsWith(Bare(observed[1].args[1]),
                           Bare(observed[1].args[3]) \o <<"/">>))
              => observed[2].out.repo = Bare(observed[1].args[1])
        /\ Bare(observed[1].args[1]) = Bare(observed[1].args[3])
              => observed[2].out.repo = <<>>

\* C18 (witness): "b" after add "a" and remove "a"
C18_AddedThenRemoved ==
    /\ AppliedTwice(<<"add">>, <<"remove">>)
    /\ observed[1].args[1] = <<"b">>
    /\ observed[1].args[3] = <<"a">>
    /\ observed[1].out.repo = <<"a", "/", "b">>
    /\ observed[2].out.repo = <<"b">>

\* a reference of the form repo:tag, a ":" after the last "/", without "@"
\* or blanks, of which _split_source_image strips no registry host: it has
\* one path segment, or its first segment has no "." or ":" and is not
\* localhost
PlainRepoTag(image) ==
    /\ \A i \in 1..Len(image) : image[i] \notin {"@", " "}
    /\ \E i \in 1..Len(image) :
          /\ image[i] = ":"
          /\ \A j \in (i + 1)..Len(image) : image[j] # "/"
    /\ \A i \in 1..Len(image) :
          (image[i] = "/" /\ \A j \in 1..(i - 1) : image[j] # "/")
              => /\ \A j \in 1..(i - 1) : image[j] \notin {".", ":"}
                 /\ Slice(image, 1, i - 1) # <<"localhost">>

\* C19: for every valid reference of the form repo:tag of which no registry
\* host is stripped, split_image_reference returns (repository, tag) with
\* repository + ":" + tag equal to the reference.
C19_SplitRoundTrip ==
    (/\ Len(observed) = 1
     /\ observed[1].fn = "_split_source_image"
     /\ PlainRepoTag(observed[1].args[1])
     /\ observed[1].out.ok)
        => observed[1].out.repo \o <<":">> \o observed[1].out.tag
               = observed[1].args[1]

\* C19 (witness): a/a:a was split into a/a and a
C19_TwoSegments ==
    /\ Len(observed) = 1
    /\ observed[1].fn = "_split_source_image"
    /\ observed[1].args[1] = <<"a", "/", "a", ":", "a">>
    /\ PlainRepoTag(observed[1].args[1])
    /\ observed[1].out.ok
    /\ observed[1].out.repo = <<"a", "/", "a">>
    /\ observed[1].out.tag = <<"a">>

\* C20: apply_prefix with a mode other than none, add or remove fails for
\* every repository and every prefix value, the empty prefix included.
C20_UnsupportedModeFails ==
    (Applied /\ observed[1].args[2] \notin {<<"none">>, <<"add">>, <<"remove">>})
        => ~observed[1].out.ok

\* the calls of create_remote_prefix_job
Renames ==
    {c \in Calls : call[c].pc # "idle" /\ call[c].kind = "create_remote_prefix_job"}

\* the repositories of the call c, and the tags the registry listed for the
\* i-th of them
Repos(c) == CleanRepositories(call[c].req.repositories)

ListedTags(c, i) ==
    IF call[c].answers[i].status = 200 THEN call[c].answers[i].tags ELSE <<>>

\* the name the call c gives the i-th repository
NewName(c, i) ==
    ApplyPrefix(Repos(c)[i], Mode(call[c].req.prefix_mode, <<"add">>),
                StripChar(Strip(call[c].req.prefix_value), "/")).repo

\* the i-th repository has no tags or keeps its name
LogOnly(c, i) == ListedTags(c, i) = <<>> \/ NewName(c, i) = Repos(c)[i]

\* the tags to rename, <<i, tag>> for a tag of the i-th repository, from
\* the i-th repository on, in the order of the request and of the listings
RECURSIVE TagsFrom(_, _)
TagsFrom(c, i) ==
    IF i > Len(Repos(c)) THEN <<>>
    ELSE (IF LogOnly(c, i) THEN <<>>
          ELSE [k \in 1..Len(ListedTags(c, i)) |-> <<i, ListedTags(c, i)[k]>>])
         \o TagsFrom(c, i + 1)

\* the request of the call c passes the checks made before the loop, and
\* every listing is answered and no repository loses its whole name
ReachesTheEnd(c) ==
    /\ ~MustReject(call[c].kind, call[c].req)
    /\ registry_api_url # <<>>
    /\ \A i \in 1..Len(Repos(c)) :
          /\ call[c].answers[i].status \in {200, 404}
          /\ ListedTags(c, i) # <<>> => NewName(c, i) # <<>>

\* C21: in create_remote_prefix_job a repository with no tags, or whose new
\* name is its name, adds one mapping line and neither commands nor cleanup
\* targets; every other repository adds, per tag and in the order of the
\* listing, a pull of the source reference, a tag of it as the target
\* reference and a push of the target reference (and the cleanup target
\* (repository, tag) when cleanup is requested); and when no tag at all is
\* planned the call raises "No tags found ..." and creates no job.
C21_RemotePrefixPlan ==
    \A c \in Renames :
        LET plan == call[c].plan
            host == plan.target_image
            pairs == TagsFrom(c, 1)
            from(k) == ImageRef(host, Repos(c)[pairs[k][1]], pairs[k][2])
            to(k) == ImageRef(host, NewName(c, pairs[k][1]), pairs[k][2])
        IN /\ plan.ok =>
                /\ pairs # <<>>
                /\ Len(plan.commands) = 3 * Len(pairs)
                /\ \A k \in 1..Len(pairs) :
                      /\ SubSeq(plan.commands[3 * k - 2], 1, 2) = << <<"docker">>, <<"pull">> >>
                      /\ Last(plan.commands[3 * k - 2]) = from(k)
                      /\ plan.commands[3 * k - 1] = << <<"docker">>, <<"tag">>, from(k), to(k) >>
                      /\ plan.commands[3 * k] = << <<"docker">>, <<"push">>, to(k) >>
                /\ plan.targets =
                      (IF call[c].req.cleanup_source_tag
                       THEN [k \in 1..Len(pairs) |-> <<Repos(c)[pairs[k][1]], pairs[k][2]>>]
                       ELSE <<>>)
                /\ Len(plan.extra_logs) =
                      1 + Len(pairs) + Cardinality({i \in 1..Len(Repos(c)) : LogOnly(c, i)})
                /\ \A i \in 1..Len(Repos(c)) :
                      LogOnly(c, i) =>
                          \E n \in 2..Len(plan.extra_logs) :
                              plan.extra_logs[n] \in
                                  { <<"[map]", " ">> \o Repos(c)[i] \o <<" ", "(no tags)">>,
                                    <<"[map]", " ">> \o Repos(c)[i] \o <<" ", "(unchanged)">> }
           /\ (ReachesTheEnd(c) /\ pairs = <<>>) =>
                /\ call[c].pc = "raised"
                /\ plan.error = "No tags found to rename for selected repositories."
                /\ call[c].job_id = 0
                /\ history[c] = NoHistory

\* C21, the case: a rename of two repositories is planned, of which the
\* first has tags and keeps its name and the second has two tags.
C21_UnchangedAndTwoTags ==
    \E c \in Renames :
        /\ call[c].plan.ok
        /\ Len(Repos(c)) = 2
        /\ ListedTags(c, 1) # <<>> /\ LogOnly(c, 1)
        /\ Len(ListedTags(c, 2)) = 2 /\ ~LogOnly(c, 2)
        /\ Len(call[c].plan.commands) = 6

\* the calls of create_repository_delete_job that did not raise
Deletes ==
    {c \in Calls : /\ call[c].kind = "create_repository_delete_job"
                   /\ call[c].pc \notin {"idle", "raised"}}

\* C22: create_repository_delete_job makes a job of the kind
\* repository-delete, which is in the store from the return of the call on;
\* its runner takes the selected repositories in order, one step each, and
\* goes on to the next whatever the outcome of a step; when it has ended,
\* every repository was processed, and the job is failed if some step failed
\* and success otherwise.
C22_RepositoryDeleteJob ==
    \A c \in Deletes :
        /\ Stored(c)
        /\ Job(c).job_type = "repository-delete"
        /\ Job(c).total_items = Len(call[c].req.repositories)
        /\ Len(Commands(c)) = Len(call[c].req.repositories)
        /\ InPlanOrder(c)
        /\ runner[c].pc # "abort"
        /\ runner[c].pc \in {"idle", "loop", "popen"} => Job(c).status = "running"
        /\ runner[c].pc \in {"finished", "done"} =>
              /\ history[c].started = [i \in 1..Len(call[c].req.repositories) |-> i]
              /\ Len(history[c].exits) = Len(call[c].req.repositories)
              /\ Job(c).status = "failed"
                    <=> \E i \in 1..Len(history[c].exits) : history[c].exits[i] # 0
              /\ Job(c).status \in {"failed", "success"}

\* C22, the case: of two repositories the first fails and the second is
\* processed all the same; the job ends failed.
C22_SecondAfterFailure ==
    \E c \in Deletes :
        /\ Stored(c)
        /\ runner[c].pc = "done"
        /\ history[c].started = <<1, 2>>
        /\ history[c].exits = <<1, 0>>
        /\ Job(c).status = "failed"

\* the tag listings made by the function fn that the registry answered 404
NotFound(fn) ==
    {i \in 1..Len(observed) : observed[i].fn = fn /\ observed[i].answer.status = 404}

\* C23: list_tags of the registry client returns the empty list, and raises
\* no error, when the registry answers 404.
C23_ListTagsEmptyOn404 ==
    \A i \in NotFound("list_tags") :
        observed[i].out.ok /\ observed[i].out.tags = <<>>

\* the same of the manager's own listing, _list_registry_tags, of which it
\* holds
C23_ManagerListingEmptyOn404 ==
    \A i \in NotFound("_list_registry_tags") :
        observed[i].out.ok /\ observed[i].out.tags = <<>>

\* the commands of the job of the call c that were started and whose process
\* has not ended
InProgress(c) ==
    {i \in 1..Len(history[c].started) : i > Len(history[c].exits)}

\* C24: the commands of a job are started in plan order, one at a time: at
\* most one command of a job is in progress, a command is in progress exactly
\* while the runner is in its _run_command, and the next command is started
\* only when every command started before has ended; commands of different
\* jobs are not ordered.
C24_OneCommandAtATime ==
    \A c \in DOMAIN call :
        /\ \A i \in 1..Len(history[c].started) : history[c].started[i] = i
        /\ Len(history[c].started) <= Len(Commands(c))
        /\ Len(history[c].exits) <= Len(history[c].started)
        /\ Cardinality(InProgress(c)) <= 1
        /\ InProgress(c) # {} <=> runner[c].pc = "popen"
        /\ runner[c].pc = "popen" => InProgress(c) = {runner[c].idx}
        /\ runner[c].pc = "loop" => runner[c].idx = Len(history[c].exits) + 1

\* C24, the case: the second command of one job and the third command of
\* another job are in progress at the same time.
C24_TwoJobsAtOnce ==
    \E c, d \in DOMAIN call :
        /\ c # d
        /\ InProgress(c) = {2}
        /\ InProgress(d) = {3}

\* the log lines that the runner writes
ByRunner(entry) == entry[3] \in {"[run]", "line", "[error]", "[done]"}

IsRun(entry) == entry[3] = "[run]"

\* the lines of the runner in the log of the job of the call c, in the
\* order of the log
RunnerLines(c) == SelectSeq(Job(c).logs, ByRunner)

\* C25: in a job's log, whatever the creating call and the threads of other
\* jobs do in between, the "[run]" lines are those of the commands started so
\* far, in plan order, and the output lines of a command follow its "[run]"
\* line in the order in which they were produced, before the next "[run]"
\* line: among the runner's lines the first output line of a command comes
\* right after a "[run]" line and its n-th right after its (n-1)-th.
C25_RunnerLinesInOrder ==
    \A c \in DOMAIN call :
        (Made(c) /\ Stored(c)) =>
            LET lines == RunnerLines(c)
            IN /\ SelectSeq(lines, IsRun) =
                     [i \in 1..Len(history[c].started) |->
                         Stamp(<<"[run]", " ">> \o Printable(Commands(c)[i]))]
               /\ \A k \in 1..Len(lines) :
                     lines[k][3] = "line" =>
                         /\ k > 1
                         /\ \E n \in 1..MaxOrdered :
                               /\ lines[k][5] = ToString(n)
                               /\ IF n = 1 THEN IsRun(lines[k - 1])
                                  ELSE lines[k - 1] = Stamp(<<"line", " ", ToString(n - 1)>>)

\* C25, the case: two jobs run at once; in the log of one the creating call
\* wrote its "[plan]" line between the two output lines of the first command,
\* and the second command has been started.
C25_InterleavedLog ==
    \E c, d \in DOMAIN call :
        /\ c # d
        /\ Made(c) /\ Stored(c)
        /\ runner[d].pc = "popen"
        /\ Len(history[c].started) = 2
        /\ \E p \in 2..(Len(Job(c).logs) - 1) :
              /\ Job(c).logs[p][3] = "[plan]"
              /\ Job(c).logs[p - 1] = Stamp(<<"line", " ", "1">>)
              /\ Job(c).logs[p + 1] = Stamp(<<"line", " ", "2">>)

\* the threads that are about to read or write job state, and those that
\* are about to make an external call
Accessing == {t \in DOMAIN Program : Statement(t).op \in {"read", "write"}}

Outside == {t \in DOMAIN Program : Statement(t).op = "external"}

\* C26 as stated: a thread reads or writes job state (status, error, logs,
\* updated_at, store membership) only while it holds the lock of the store,
\* and no thread is inside an external call (subprocess, registry request,
\* sleep) while it holds the lock.
C26_StateOnlyUnderLock ==
    /\ \A t \in Accessing : sync.lock = t
    /\ \A t \in Outside : sync.lock # t

\* the parts of C26 that hold: every write of job state, and every read of
\* the store's membership, is made by the thread that holds the lock, and no
\* thread holds the lock while it is inside an external call
C26_WritesUnderLock ==
    /\ \A t \in Accessing :
          (Statement(t).op = "write" \/ Statement(t).what = "membership")
              => sync.lock = t
    /\ \A t \in Outside : sync.lock # t

\* C27: a step in which a thread of a job calls _update_job_status, or calls
\* _append_log for a "[run]" or the "[done]" line, leaves the store and every
\* job object as they are when the job is not in the store, and otherwise
\* refreshes updated_at of that job and leaves the store's membership alone.
C27_UnknownIdNoOp ==
    [][\A c \in Calls :
          (/\ Made(c)
           /\ \/ history'[c].writes # history[c].writes
              \/ history'[c].started # history[c].started
              \/ (runner[c].pc = "finished" /\ runner'[c].pc = "done"))
              => /\ jobs' = jobs
                 /\ IF InStore(call[c].job_id)
                    THEN /\ objects'[call[c].job_id].updates
                               = objects[call[c].job_id].updates + 1
                         /\ \A id \in DOMAIN objects \ {call[c].job_id} :
                               objects'[id] = objects[id]
                    ELSE objects' = objects]_vars

\* C27, the case: the job was evicted while its runner worked; the runner
\* has called _update_job_status and _append_log for it since, and the job
\* object still has the status running.
C27_WrittenAfterEviction ==
    \E c \in Calls :
        /\ Made(c)
        /\ ~Stored(c)
        /\ runner[c].pc = "done"
        /\ history[c].writes # <<>>
        /\ ~history[c].writes[1].applied
        /\ Job(c).status = "running"

\* C28: the error of a job is not None only when its status is failed, so a
\* job that is running or success has the error None; and a step that
\* changes the error of a job leaves the job failed with an error that is
\* not None.
C28_ErrorOnlyWhenFailed ==
    /\ [](\A id \in DOMAIN objects :
              objects[id].error # None => objects[id].status = "failed")
    /\ [][\A id \in DOMAIN objects :
              objects'[id].error # objects[id].error
                  => /\ objects'[id].status = "failed"
                     /\ objects'[id].error # None]_vars

\* C28, the case: a job that its runner ended success, with the error None,
\* and that the cleanup then failed, with its error.
C28_ErrorSetByCleanup ==
    \E c \in Calls :
        /\ Stored(c)
        /\ Writes(c) = << <<"runner", "success">>, <<"cleanup", "failed">> >>
        /\ Job(c).status = "failed"
        /\ Job(c).error # None
        /\ IsCleanupError(Job(c).error)

\* C29: the runner of a job calls _update_job_status once, with success or
\* failed: it has not called it before it leaves its loop, and it has called
\* it exactly once from then on, whether the commands all ended well, one
\* failed in a fail-fast job, some failed in a job that continues, or one
\* could not be spawned.
C29_OneTerminalWrite ==
    \A c \in Calls :
        /\ Len(WritesBy(c, "runner")) <= 1
        /\ \A i \in 1..Len(WritesBy(c, "runner")) :
              WritesBy(c, "runner")[i][2] \in {"success", "failed"}
        /\ runner[c].pc \in {"idle", "loop", "popen", "abort"}
              => WritesBy(c, "runner") = <<>>
        /\ runner[c].pc \in {"finished", "done"} => Len(WritesBy(c, "runner")) = 1
        /\ runner[c].pc \in {"idle", "loop", "popen", "abort", "finished", "done"}

\* C29, the case: in a job that continues after failures the first command
\* could not be spawned and the last exited 1; the runner has ended and has
\* written failed, once.
C29_OneWriteAfterFailures ==
    \E c \in Calls :
        /\ Made(c)
        /\ call[c].plan.continue_on_error
        /\ runner[c].pc = "done"
        /\ history[c].exits = <<-1, 0, 1>>
        /\ WritesBy(c, "runner") = << <<"runner", "failed">> >>

\* the items of s from the i-th on that do not occur before, in order
RECURSIVE FirstsFrom(_, _)
FirstsFrom(s, i) ==
    IF i > Len(s) THEN <<>>
    ELSE (IF \E j \in 1..(i - 1) : s[j] = s[i] THEN <<>> ELSE <<s[i]>>)
         \o FirstsFrom(s, i + 1)

\* the targets that the cleanup thread of the call c has taken up, in order:
\* those of its HEAD requests
TakenUp(c) ==
    LET heads == SelectSeq(history[c].requests, LAMBDA r : r.method = "HEAD")
    IN [i \in 1..Len(heads) |-> heads[i].target]

\* C30: the cleanup thread takes up the distinct targets of the request in
\* the order of their first occurrence and each of them once, however often
\* a target is repeated: the targets taken up so far are the first ones of
\* that order, every request is for the target taken up last, no target gets
\* two DELETE requests, and a cleanup that has ended without failing the
\* job has taken up every distinct target.
C30_EachTargetOnce ==
    \A c \in Calls :
        Made(c) =>
            LET firsts == FirstsFrom(call[c].plan.targets, 1)
                taken == TakenUp(c)
                requests == history[c].requests
            IN /\ Len(taken) <= Len(firsts)
               /\ taken = SubSeq(firsts, 1, Len(taken))
               /\ \A i \in 1..Len(requests) :
                     requests[i].target =
                         taken[Cardinality({j \in 1..i : requests[j].method = "HEAD"})]
               /\ \A i, j \in 1..Len(requests) :
                     (/\ i # j
                      /\ requests[i].method = "DELETE"
                      /\ requests[j].method = "DELETE")
                         => requests[i].target # requests[j].target
               /\ (/\ cleaner[c].pc = "done"
                   /\ requests # <<>>
                   /\ WritesBy(c, "cleanup") = <<>>)
                     => taken = firsts

\* C30, the case: of three requested targets the third repeats the first;
\* the cleanup has ended after two DELETE requests, one for each of the two
\* distinct targets, and the job is success.
C30_RepeatedTargetDeletedOnce ==
    \E c \in Calls :
        /\ Stored(c)
        /\ Len(call[c].plan.targets) = 3
        /\ call[c].plan.targets[3] = call[c].plan.targets[1]
        /\ cleaner[c].pc = "done"
        /\ Len(TakenUp(c)) = 2
        /\ Cardinality({i \in 1..Len(history[c].requests) :
                           /\ history[c].requests[i].method = "DELETE"
                           /\ history[c].requests[i].response = 202}) = 2
        /\ Job(c).status = "success"

\* the caller of the call c asked for registry-side source-tag deletion
CleanupRequested(c) ==
    CASE call[c].kind = "create_local_push_job" ->
             call[c].req.cleanup_registry_source_tag
      [] call[c].kind = "create_remote_prefix_job" -> call[c].req.cleanup_source_tag
      [] OTHER -> FALSE

\* C31: for a mirror job, a local push with cleanup_registry_source_tag =
\* false and a rename with cleanup_source_tag = false, no cleanup thread is
\* ever started, no registry request is made for the job, and every status
\* write of the job is made by its runner.
C31_CleanupOnlyOnRequest ==
    \A c \in Calls :
        (call[c].pc # "idle" /\ ~CleanupRequested(c)) =>
            /\ history[c].cleaners = 0
            /\ cleaner[c].pc = "idle"
            /\ history[c].requests = <<>>
            /\ \A i \in 1..Len(history[c].writes) : history[c].writes[i].by = "runner"

\* C31, the case: a local push or a rename without registry cleanup whose
\* creating call has returned and whose runner has ended the job success.
C31_EndedWithoutCleanup ==
    \E c \in Calls :
        /\ Stored(c)
        /\ call[c].kind \in {"create_local_push_job", "create_remote_prefix_job"}
        /\ ~CleanupRequested(c)
        /\ Quiet(c)
        /\ Writes(c) = << <<"runner", "success">> >>

\* a command of the call c has failed: non-zero exit, or no process spawned
SomeCommandFailed(c) == \E i \in 1..Len(history[c].exits) : history[c].exits[i] # 0

\* C32: a runner that has ended has written the job's status, so it has
\* not ended by an exception; when one of its commands failed (non-zero exit
\* or failure to spawn) the job is failed with a non-null error; a cleanup
\* thread that has ended after an exception has logged it and written the
\* status failed with the "Registry cleanup failed: " error; and a create
\* call raises only before it has made a job, never for what its threads do.
C32_ErrorsStayInTheJob ==
    \A c \in Calls :
        /\ runner[c].pc = "done" =>
              /\ Len(WritesBy(c, "runner")) = 1
              /\ (SomeCommandFailed(c) /\ Stored(c)) =>
                    /\ Job(c).status = "failed"
                    /\ Job(c).error.some
        /\ (cleaner[c].pc = "done" /\ cleaner[c].exc # <<>>) =>
              /\ WritesBy(c, "cleanup") = << <<"cleanup", "failed">> >>
              /\ Stored(c) =>
                    /\ Job(c).status = "failed"
                    /\ Job(c).error = Some(CleanupFailedText(cleaner[c].exc))
        /\ call[c].pc = "raised" =>
              /\ ~Made(c)
              /\ history[c].runners = 0
              /\ history[c].cleaners = 0
        /\ (runner[c].pc # "idle" \/ cleaner[c].pc # "idle")
              => call[c].pc \in {"started", "returned"}

\* C32, the case: a mirror job whose first command could not be spawned;
\* its runner has ended, the creating call has returned the job, and the
\* job is failed with the text of the spawn error.
C32_SpawnErrorCaptured ==
    \E c \in Calls :
        /\ Stored(c)
        /\ call[c].kind = "create_job"
        /\ call[c].pc = "returned"
        /\ runner[c].pc = "done"
        /\ history[c].exits = <<-1>>
        /\ Job(c).status = "failed"
        /\ Job(c).error = Some(SpawnFailedText(Commands(c)[1]))

\* the positions of a separator in a text
Positions(text, ch) == {i \in 1..Len(text) : text[i] = ch}

LastOf(S) == IF S = {} THEN 0 ELSE CHOOSE i \in S : \A j \in S : j <= i

FirstOf(S) == IF S = {} THEN 0 ELSE CHOOSE i \in S : \A j \in S : i <= j

\* a first path segment that looks like a registry host
HostLike(segment) ==
    \/ \E i \in 1..Len(segment) : segment[i] \in {".", ":"}
    \/ segment = <<"localhost">>

\* the name that split_image_reference is to derive the repository from:
\* the reference without its digest or tag
NamePart(ref) ==
    IF Positions(ref, "@") # {} THEN Slice(ref, 1, LastOf(Positions(ref, "@")) - 1)
    ELSE IF LastOf(Positions(ref, ":")) > LastOf(Positions(ref, "/"))
         THEN Slice(ref, 1, LastOf(Positions(ref, ":")) - 1)
    ELSE ref

\* the tag that it is to derive
TagPart(ref) ==
    IF Positions(ref, "@") # {}
    THEN [i \in 1..(Len(ref) - LastOf(Positions(ref, "@"))) |->
             IF ref[LastOf(Positions(ref, "@")) + i] = ":" THEN "-"
             ELSE ref[LastOf(Positions(ref, "@")) + i]]
    ELSE IF LastOf(Positions(ref, ":")) > LastOf(Positions(ref, "/"))
         THEN Slice(ref, LastOf(Positions(ref, ":")) + 1, Len(ref))
    ELSE <<"latest">>

\* the repository that it is to derive: the name without a leading host
RepositoryPart(ref) ==
    IF /\ Positions(NamePart(ref), "/") # {}
       /\ HostLike(Slice(NamePart(ref), 1, FirstOf(Positions(NamePart(ref), "/")) - 1))
    THEN Slice(NamePart(ref), FirstOf(Positions(NamePart(ref), "/")) + 1,
               Len(NamePart(ref)))
    ELSE NamePart(ref)

\* a call of split_image_reference was made
SplitCalled == Len(observed) = 1 /\ observed[1].fn = "_split_source_image"

\* the reference it was made on: the argument without the white space
\* around it
SplitRef == Strip(observed[1].args[1])

\* C33, the derivation alone: split_image_reference fails exactly on an
\* empty reference and on an empty derived repository, and otherwise returns
\* the repository without a leading registry host and the tag after the last
\* ":" when that colon is after the last "/", the digest with ":" replaced by
\* "-" when there is an "@", and latest otherwise.
C33_Derivation ==
    SplitCalled =>
        /\ observed[1].out.ok <=> (SplitRef # <<>> /\ RepositoryPart(SplitRef) # <<>>)
        /\ observed[1].out.ok =>
              /\ observed[1].out.repo = RepositoryPart(SplitRef)
              /\ observed[1].out.tag = TagPart(SplitRef)

\* C33: split_image_reference derives the tag and the repository as above,
\* fails on empty input and on an empty derived repository, and in every
\* successful result the repository contains neither ":" nor "@" and the tag
\* is not empty.
C33_SplitImageReference ==
    SplitCalled =>
        /\ observed[1].out.ok <=> (SplitRef # <<>> /\ RepositoryPart(SplitRef) # <<>>)
        /\ observed[1].out.ok =>
              /\ observed[1].out.repo = RepositoryPart(SplitRef)
              /\ observed[1].out.tag = TagPart(SplitRef)
              /\ Positions(observed[1].out.repo, ":") = {}
              /\ Positions(observed[1].out.repo, "@") = {}
              /\ observed[1].out.tag # <<>>

\* a log line that the creating call writes after _create_and_start_job
ByCreator(entry) == entry[3] \in {"[plan]", "[map]"}

\* C34: in the log of a local-push or remote-prefix job, the "[plan]" line
\* and every "[map]" line of the creating call come before the first "[run]"
\* line of the runner: no "[run]" line is followed by one of them.
C34_PlanBeforeRun ==
    \A c \in Calls :
        (Stored(c) /\ call[c].kind \in {"create_local_push_job",
                                        "create_remote_prefix_job"}) =>
            \A i, j \in 1..Len(Job(c).logs) :
                (i < j /\ IsRun(Job(c).logs[i])) => ~ByCreator(Job(c).logs[j])

\* C34, what the code does give: the "[init]" line, written before the
\* runner is started, is the first line of the log, and the creating call's
\* own lines are in the order "[plan]", then the "[map]" lines.
C34_InitFirst ==
    \A c \in Calls :
        (Stored(c) /\ Job(c).logs # <<>>) =>
            /\ Job(c).logs[1][3] = "[init]"
            /\ \A i, j \in 1..Len(Job(c).logs) :
                  (i < j /\ Job(c).logs[i][3] = "[map]") => Job(c).logs[j][3] # "[plan]"

\* C35 as stated: in every step, a job whose status is success or failed
\* keeps its logs.
C35_LogsFrozenAfterTerminal ==
    [][\A id \in DOMAIN objects :
          objects[id].status \in {"success", "failed"}
              => objects'[id].logs = objects[id].logs]_vars

\* C35, amended: in every step that changes the logs of a job whose status
\* has left running, one line is appended, and it is the "[done]" line of
\* the runner that has just written the status, a "[cleanup]" line, or a
\* "[plan]" or "[map]" line of the creating call; no "[run]" line, output
\* line or "[error]" line is appended any more.
C35_LinesAfterTerminal ==
    [][\A c \in Calls :
          (/\ Made(c)
           /\ Job(c).status # "running"
           /\ objects'[call[c].job_id].logs # Job(c).logs) =>
              /\ Len(objects'[call[c].job_id].logs) = Len(Job(c).logs) + 1
              /\ SubSeq(objects'[call[c].job_id].logs, 1, Len(Job(c).logs)) = Job(c).logs
              /\ Last(objects'[call[c].job_id].logs)[3]
                    \in {"[done]", "[cleanup]", "[plan]", "[map]"}
              /\ Last(objects'[call[c].job_id].logs)[3] = "[done]"
                    => runner[c].pc = "finished" /\ runner'[c].pc = "done"]_vars

\* C35, the case: a job that is success, all its threads ended, in whose
\* log the "[done]" line, written after the status, is followed by the
\* cleanup thread's line of a deleted source tag.
C35_LoggedAfterSuccess ==
    \E c \in Calls :
        /\ Stored(c)
        /\ Quiet(c)
        /\ Job(c).status = "success"
        /\ \E i, j \in 1..Len(Job(c).logs) :
              /\ i < j
              /\ Job(c).logs[i][3] = "[done]"
              /\ Job(c).logs[j][3] = "[cleanup]"
              /\ Job(c).logs[j][5] = "deleted source tag "

\* the image that the job of the call c pushes for its i-th reference
Pushed(c, i) == call[c].plan.commands[PerRef(call[c].req) * (i - 1) + 2][3]

\* the image that a cleanup target names in the registry the job pushes to
Named(c, target) ==
    call[c].plan.target_image \o <<"/">> \o target[1] \o <<":">> \o target[2]

\* C36: for a local-push job with registry cleanup that pushes to the
\* manager's registry, the cleanup target recorded for a reference is never
\* the (repository, tag) that the job pushes for that reference.
C36_CleanupSparesPushedTag ==
    \A c \in LocalPushes :
        (/\ call[c].plan.cleanup
         /\ registry_push_host # <<>>
         /\ call[c].plan.target_image = registry_push_host) =>
            \A i \in 1..Len(call[c].plan.targets) :
                Named(c, call[c].plan.targets[i]) # Pushed(c, i)

\* C36, where the code does keep them apart: the same, for a job whose
\* prefix rule renames the repository of every reference or whose arch
\* label is appended to every tag.
C36_SparedWhenRenamed ==
    \A c \in LocalPushes :
        (/\ call[c].plan.cleanup
         /\ registry_push_host # <<>>
         /\ call[c].plan.target_image = registry_push_host) =>
            \A i \in 1..Len(call[c].plan.targets) :
                (\/ ApplyPrefix(call[c].plan.targets[i][1],
                                OrDefault(Lower(Strip(call[c].req.prefix_mode)),
                                          <<"none">>),
                                call[c].req.prefix_value).repo
                        # call[c].plan.targets[i][1]
                 \/ Suffixed(call[c].plan.targets[i][2], LabelOf(call[c].req))
                        # call[c].plan.targets[i][2])
                    => Named(c, call[c].plan.targets[i]) # Pushed(c, i)

\* the job of the call c was made and is no longer in the store
Evicted(c) == Made(c) /\ ~InStore(call[c].job_id)

\* the cleanup thread of the call c has not seen a terminal status yet: it
\* is not started, or it is in its polling loop
Unobserved(c) == cleaner[c].pc \in {"idle", "poll"}

RanOut(c) ==
    /\ InPlanOrder(c)
    /\ Len(history[c].exits) = Len(history[c].started)
    /\ \/ Len(history[c].started) = Len(Commands(c))
       \/ /\ ~call[c].plan.continue_on_error
          /\ history[c].exits # <<>>
          /\ Last(history[c].exits) # 0

\* C38: no step changes the record of a job that is evicted, whatever its
\* threads write; and a job that is evicted while running is led to the end
\* all the same: its runner goes on to start every remaining command of the
\* plan, up to the first failure in fail-fast mode, and ends, the record
\* still having the status running.
C38_EvictedJobRunsOn ==
    /\ [][\A c \in Calls :
            Evicted(c) => objects'[call[c].job_id] = objects[call[c].job_id]]_vars
    /\ \A c \in Calls :
          (Evicted(c) /\ Job(c).status = "running")
              ~> (/\ Evicted(c)
                  /\ runner[c].pc = "done"
                  /\ RanOut(c)
                  /\ Job(c).status = "running")

\* C38, the case: a job was evicted before its runner started the first
\* command (its log holds no "[run]" line); the runner has since started
\* both commands, which ended with exit code 0, and has ended after its
\* status write, and the record still has the status running.
C38_RanAfterEviction ==
    \E c \in Calls :
        /\ Evicted(c)
        /\ runner[c].pc = "done"
        /\ history[c].started = <<1, 2>>
        /\ history[c].exits = <<0, 0>>
        /\ \A i \in 1..Len(Job(c).logs) : ~IsRun(Job(c).logs[i])
        /\ Writes(c) = << <<"runner", "success">> >>
        /\ Job(c).status = "running"

====
